---- MODULE Spec2Model ----
(***************************************************************************)
(* Model of the resilience and streaming engine of the chat relay:         *)
(*   - RateLimiter.is_rate_limited      (services/rate_limiter.py)         *)
(*   - CircuitBreaker                   (services/gemini_service.py)       *)
(*   - StreamingGeminiService           (services/gemini_service.py)       *)
(*   - ConnectionManager, chat_endpoint, websocket_chat_endpoint           *)
(*                                      (api/endpoints/chat.py)            *)
(*   - ContextManager.build_context     (services/gemini_service.py)       *)
(*   - ChatService.get_session_messages (services/chat_service.py)         *)
(*   - login                            (api/endpoints/auth.py)            *)
(* Time is a discrete clock `now` (one tick = one second of the wall       *)
(* clock, read by datetime.now().timestamp()).  Every await of the code    *)
(* is a point where other tasks may run, so each awaited operation is one  *)
(* step of the model.                                                      *)
(***************************************************************************)
EXTENDS Integers, Sequences, FiniteSets, TLC

(***************************************************************************)
(* Bounds of the model.                                                    *)
(***************************************************************************)
\* the clock stops at MaxTime
MaxTime == 5
\* max_requests of the modelled key (30, 20 or 5 in the callers; scaled down)
MaxRequests == 2
\* window_seconds of the modelled key (60 or 300 in the callers; scaled down)
WindowSeconds == 2

\* failure_threshold of the breaker (5 by default; scaled down)
FailureThreshold == 2
\* recovery_timeout of the breaker in seconds (60 by default; scaled down)
RecoveryTimeout == 1

\* tasks that call is_rate_limited for the same key concurrently
LimCallers == {"t1", "t2"}
\* tasks that call CircuitBreaker.call on the same breaker concurrently
BrCallers == {"t1", "t2"}

\* most words in a text the provider returns
MaxWords == 4

\* most characters in a text the provider returns, in the character-level view
MaxText == 9

\* default limit of get_session_messages (50 in the code), and the most
\* turns a session holds
HistoryLimit == 3
MaxStored == 4

\* the most messages the session of the POST /chat requests holds before a
\* further request is taken
MaxSession == 4

\* POST /chat request slots of user UserId; a slot whose request has been
\* answered takes the user's next request
Reqs == {"h1"}

\* POST /login request slots for one username: its attempts come one after
\* another, each taking the slot when the one before has been answered
Logins == {"a1"}

\* WebSocket connection slots, all of user UserId to the user's session SessionId;
\* a slot whose connection has ended takes the user's next connection
Conns == {"w1"}
UserId == "u1"
OtherUserId == "u2"
SessionId == "s1"

Times == 0..MaxTime
NoTTL == -1
NoTime == -1

VARIABLES
    now,        \* the wall clock
    zset,       \* the Redis sorted set of the key: score -> number of members
    expireAt,   \* the time at which the Redis key expires, or NoTTL
    lpc,        \* per limiter caller: "idle" or "counted" (between pipeline and zadd)
    lct,        \* per limiter caller: current_time of the call in flight
    lcnt,       \* per limiter caller: current_requests read by the pipeline
    lres,       \* per limiter caller: the last (is_limited, info) returned
    recorded,   \* history: score -> number of calls ever recorded with it
    overlap,    \* history: some call ran while another was in flight
    cb,         \* the CircuitBreaker object: state, failure_count, last_failure_time
    bpc,        \* per breaker caller: "idle" or "inflight" (inside the wrapped function)
    bres,       \* per breaker caller: outcome of its last call
    consec,     \* history: wrapped calls that failed since the last one that succeeded
    lastFail,   \* history: time of the last failure of a wrapped call, or NoTime
    trial,      \* history: the caller whose call moved the breaker to HALF_OPEN
    trialEnd,   \* history: how the call that returned last ended, when it was that
                \* caller's and the breaker was HALF_OPEN ("ok", "failed"), else "none"
    active_connections, \* ConnectionManager.active_connections: key -> websocket
    wpc,        \* per connection: where websocket_chat_endpoint stands
    clientUp,   \* per connection: the client has not disconnected
    wdropAt,    \* history: the generation step during which the client disconnected
    whs,        \* per connection: how the handshake ended
    win,        \* per connection: what the handshake was given (token, user, session, services)
    wuser,      \* per connection: local `user`: "unbound", "none" or "user"
    wclose,     \* per connection: the codes of the websocket.close calls made
    wcb,        \* per connection: gemini_service.circuit_breaker
    wmodel,     \* per connection: gemini_service.model is not None
    wmsg,       \* per connection: what the current loop iteration received
    wlimres,    \* per connection: (is_limited, rate_info) for the current message
    wct,        \* per connection: current_time of the limiter call in flight
    wcnt,       \* per connection: current_requests of the limiter call in flight
    wwords,     \* per connection: number of words of the response text
    wi,         \* per connection: loop index i of stream_response
    wevts,      \* per connection: events sent in the current loop iteration
    wfail,      \* history: the failure met while handling the current message
    winvoked,   \* history: provider invocations made for the current message
    wstored,    \* history: turns persisted for the current message
    hpc,        \* per HTTP request slot: where chat_endpoint stands
    hcb,        \* per HTTP request: gemini_service.circuit_breaker
    hmodel,     \* per HTTP request: gemini_service.model is not None
    hlimres,    \* per HTTP request: (is_limited, rate_info)
    hct,        \* per HTTP request: current_time of the limiter call in flight
    hcnt,       \* per HTTP request: current_requests of the limiter call in flight
    hbound,     \* per HTTP request: local assistant_message is bound
    hstatus,    \* per HTTP request: status of the response, 0 before it is sent
    hfail,      \* history: the failure met while handling the request
    hinvoked,   \* history: provider invocations made for the request
    hstored,    \* history: turns persisted for the request
    hsession,   \* the session's stored messages (their types), oldest first
    hok,        \* history: calls on the session that were answered 200
    hbad,       \* history: some call on the session was answered otherwise
    apc,        \* per login request slot: where login stands
    atime,      \* per login request: current_time of its limiter call
    acnt,       \* per login request: current_requests of its limiter call
    alimres,    \* per login request: (is_limited, rate_info)
    astatus,    \* per login request: status of the response, 0 before it is sent
    achecked,   \* history: authenticate_user was called for the request
    aprior,     \* history: attempts of the window that had been checked before it
    aprec,      \* history: attempts of the window the limiter had recorded before it
    admitted,   \* history: time -> attempts of the running window whose credentials were checked
    arecorded,  \* history: time -> attempts of the running window the limiter recorded
    spc,        \* where the generation call under study stands
    stext,      \* response.text as the provider returned it
    swords,     \* stream_response: words
    scur,       \* stream_response: current_response
    si,         \* stream_response: loop index i
    ssent,      \* stream_response: the streaming_response events sent, in order
    sret,       \* stream_response: the text returned
    serr,       \* stream_response: why it raised, or "none"
    gres,       \* generate_response: what it returned or raised
    cpc,        \* where the context construction under study stands
    cstore,     \* the session's stored turns, oldest first
    cmessages,  \* build_context: messages
    cmsg,       \* build_context: len(current_message)
    cmax,       \* build_context: self.max_context_length
    cout,       \* build_context: context_parts of the string returned
    raccepted,  \* history: the handles that have been accepted and registered
    rlast,      \* history: per key, the handle of the latest connect since its last disconnect
    rearlier,   \* history: per key, the handles of the connects before the latest
    rkey        \* history: per handle, the key of its connection while its endpoint
                \* has not reached its finally block, else NoKey

limVars == <<zset, expireAt, lpc, lct, lcnt, lres, recorded, overlap>>
brVars == <<cb, bpc, bres, consec, lastFail, trial, trialEnd>>
wsVars == <<active_connections, wpc, clientUp, wdropAt, whs, win, wuser, wclose, wcb, wmodel, wmsg,
            wlimres, wct, wcnt, wwords, wi, wevts, wfail, winvoked, wstored>>
httpVars == <<hpc, hcb, hmodel, hlimres, hct, hcnt, hbound, hstatus, hfail, hinvoked,
              hstored, hsession, hok, hbad>>
loginVars == <<apc, atime, acnt, alimres, astatus, achecked, aprior, aprec, admitted,
              arecorded>>
streamVars == <<spc, stext, swords, scur, si, ssent, sret, serr, gres>>
contextVars == <<cpc, cstore, cmessages, cmsg, cmax, cout>>
regVars == <<raccepted, rlast, rearlier, rkey>>
extVars == <<loginVars, streamVars, contextVars, regVars>>
vars == <<now, limVars, brVars, wsVars, httpVars, extVars>>

(***************************************************************************)
(* Helpers over score -> count maps.                                       *)
(***************************************************************************)
RECURSIVE SumOver(_, _)
SumOver(f, S) ==
    IF S = {} THEN 0
    ELSE LET x == CHOOSE y \in S : TRUE IN f[x] + SumOver(f, S \ {x})

EmptyZ == [s \in Times |-> 0]

\* ZREMRANGEBYSCORE key 0 window_start: members with 0 <= score <= window_start go
ZRemRangeByScore(z, lo, hi) == [s \in Times |-> IF lo <= s /\ s <= hi THEN 0 ELSE z[s]]

\* ZCARD key
ZCard(z) == SumOver(z, Times)

\* ZADD key {uuid4: score}: the member is fresh, so the set always grows by one
ZAdd(z, score) == [z EXCEPT ![score] = @ + 1]

\* the comparison of line 38: the call is denied
LimitReachedOffByOne(count, maxReq) == count > maxReq
LimitReached(count, maxReq) == count >= maxReq

\* info returned by is_rate_limited
NoResult == [kind |-> "none", requests_made |-> 0, retry_after |-> 0]
DeniedInfo(count, window) ==
    [kind |-> "limited", requests_made |-> count, retry_after |-> window]
AllowedInfo(count) ==
    [kind |-> "allowed", requests_made |-> count + 1, retry_after |-> 0]
\* is_rate_limited answering a store failure with an info that reports a limit
FailOpenReportsLimit == [kind |-> "limited", requests_made |-> 0, retry_after |-> 0]
FailOpenInfo == [kind |-> "error", requests_made |-> 0, retry_after |-> 0]

(***************************************************************************)
(* RateLimiter.is_rate_limited, lines 25-45: the clock is read and the     *)
(* pipeline (prune, count, expire) runs as one MULTI/EXEC transaction.     *)
(* The pipeline may raise (store unavailable): the call fails open.        *)
(***************************************************************************)
\* the pipeline without its ZREMRANGEBYSCORE
LimPipelineNoPrune(z) == z
LimPipelineState(z) == ZRemRangeByScore(z, 0, now - WindowSeconds)

\* lines 38-45: the denied call returns before the ZADD of line 48
WindowAfterDenialRecords(z) == ZAdd(z, now)
WindowAfterDenial(z) == z

LimCheck(c) ==
    /\ lpc[c] = "idle"
    /\ \E ok \in BOOLEAN :
         IF ~ok
         THEN /\ lres' = [lres EXCEPT ![c] = FailOpenInfo]
              /\ UNCHANGED <<zset, expireAt, lpc, lct, lcnt, overlap>>
         ELSE LET z1 == LimPipelineState(zset)
                  cnt == ZCard(z1)
              IN  /\ zset' = IF LimitReached(cnt, MaxRequests) THEN WindowAfterDenial(z1) ELSE z1
                  \* EXPIRE acts on an existing key only; an emptied set is no key
                  /\ expireAt' = IF cnt > 0 THEN now + WindowSeconds ELSE NoTTL
                  /\ overlap' = (overlap \/ \E d \in LimCallers \ {c} : lpc[d] = "counted")
                  /\ IF LimitReached(cnt, MaxRequests)
                     THEN /\ lres' = [lres EXCEPT ![c] = DeniedInfo(cnt, WindowSeconds)]
                          /\ UNCHANGED <<lpc, lct, lcnt>>
                     ELSE /\ lpc' = [lpc EXCEPT ![c] = "counted"]
                          /\ lct' = [lct EXCEPT ![c] = now]
                          /\ lcnt' = [lcnt EXCEPT ![c] = cnt]
                          /\ lres' = [lres EXCEPT ![c] = NoResult]
    /\ UNCHANGED <<now, recorded, brVars, wsVars, httpVars, extVars>>

(***************************************************************************)
(* RateLimiter.is_rate_limited, lines 47-60: the separate ZADD of the      *)
(* admitted call, with the score read before the pipeline.                 *)
(***************************************************************************)
LimRecord(c) ==
    /\ lpc[c] = "counted"
    /\ lpc' = [lpc EXCEPT ![c] = "idle"]
    /\ lct' = [lct EXCEPT ![c] = 0]
    /\ lcnt' = [lcnt EXCEPT ![c] = 0]
    /\ \E ok \in BOOLEAN :
         IF ~ok
         THEN /\ lres' = [lres EXCEPT ![c] = FailOpenInfo]
              /\ UNCHANGED <<zset, recorded>>
         ELSE /\ zset' = ZAdd(zset, lct[c])
              /\ recorded' = ZAdd(recorded, lct[c])
              /\ lres' = [lres EXCEPT ![c] = AllowedInfo(lcnt[c])]
    /\ UNCHANGED <<now, expireAt, overlap, brVars, wsVars, httpVars, extVars>>

(***************************************************************************)
(* CircuitBreaker (gemini_service.py lines 15-52) as operators on the      *)
(* object's fields.  A timestamp is truthy in the code whenever it is set. *)
(***************************************************************************)
CbNew == [state |-> "CLOSED", failure_count |-> 0, last_failure_time |-> NoTime]

\* lines 28-30: the recovery window has run out
CbRecoveryElapsedAtTimeout(b, t) ==
    b.last_failure_time # NoTime /\ t - b.last_failure_time >= RecoveryTimeout
CbRecoveryElapsed(b, t) ==
    b.last_failure_time # NoTime /\ t - b.last_failure_time > RecoveryTimeout

\* lines 27-33: the call is refused with the circuit-open error
CbRejects(b, t) == b.state = "OPEN" /\ ~CbRecoveryElapsed(b, t)

\* lines 27-33: the breaker as a refused call leaves it
CbAfterRejectionRestartsTimer(b, t) == [b EXCEPT !.last_failure_time = t]
CbAfterRejection(b, t) == b

\* lines 27-31: the breaker as the admitted call leaves it before invoking func
CbAfterGateCloses(b, t) ==
    IF b.state = "OPEN" /\ CbRecoveryElapsed(b, t)
    THEN [b EXCEPT !.state = "CLOSED"]
    ELSE b
CbAfterGate(b, t) ==
    IF b.state = "OPEN" /\ CbRecoveryElapsed(b, t)
    THEN [b EXCEPT !.state = "HALF_OPEN"]
    ELSE b

\* lines 43-45
OnSuccessKeepsCount(b) == [b EXCEPT !.state = "CLOSED"]
OnSuccess(b) == [b EXCEPT !.failure_count = 0, !.state = "CLOSED"]

\* lines 47-52
OnFailureOpensLate(b, t) ==
    [state |-> IF b.failure_count + 1 > FailureThreshold THEN "OPEN" ELSE b.state,
     failure_count |-> b.failure_count + 1,
     last_failure_time |-> t]
\* on_failure writing back a count read before another failure was counted
OnFailureLosesUpdate(b, t) ==
    [state |-> IF b.failure_count >= FailureThreshold THEN "OPEN" ELSE b.state,
     failure_count |-> IF b.failure_count = 0 THEN 1 ELSE b.failure_count,
     last_failure_time |-> t]
\* on_failure without line 49, the failure time left as it was
OnFailureKeepsTime(b, t) ==
    [state |-> IF b.failure_count + 1 >= FailureThreshold THEN "OPEN" ELSE b.state,
     failure_count |-> b.failure_count + 1,
     last_failure_time |-> b.last_failure_time]
OnFailure(b, t) ==
    [state |-> IF b.failure_count + 1 >= FailureThreshold THEN "OPEN" ELSE b.state,
     failure_count |-> b.failure_count + 1,
     last_failure_time |-> t]

(***************************************************************************)
(* CircuitBreaker.call on one shared breaker, lines 27-36: the state check *)
(* and the start of the wrapped call.                                      *)
(***************************************************************************)
CbCallEnter(c) ==
    /\ bpc[c] = "idle"
    /\ IF CbRejects(cb, now)
       THEN /\ bres' = [bres EXCEPT ![c] = "rejected"]
            /\ cb' = CbAfterRejection(cb, now)
            /\ UNCHANGED <<bpc, trial>>
       ELSE /\ cb' = CbAfterGate(cb, now)
            /\ bpc' = [bpc EXCEPT ![c] = "inflight"]
            /\ bres' = [bres EXCEPT ![c] = "none"]
            /\ trial' = IF cb.state = "OPEN" THEN c ELSE trial
    /\ UNCHANGED <<now, consec, lastFail, trialEnd, limVars, wsVars, httpVars, extVars>>

(***************************************************************************)
(* CircuitBreaker.call, lines 36-41: the wrapped call returns or raises.   *)
(***************************************************************************)
CbCallReturn(c) ==
    /\ bpc[c] = "inflight"
    /\ bpc' = [bpc EXCEPT ![c] = "idle"]
    /\ trial' = IF trial = c THEN "none" ELSE trial
    /\ \E ok \in BOOLEAN :
         /\ trialEnd' = IF trial = c /\ cb.state = "HALF_OPEN"
                         THEN (IF ok THEN "ok" ELSE "failed")
                         ELSE "none"
         /\ IF ok
            THEN /\ cb' = OnSuccess(cb)
                 /\ bres' = [bres EXCEPT ![c] = "ok"]
                 /\ consec' = 0
                 /\ UNCHANGED lastFail
            ELSE /\ cb' = OnFailure(cb, now)
                 /\ bres' = [bres EXCEPT ![c] = "failed"]
                 /\ consec' = consec + 1
                 /\ lastFail' = now
    /\ UNCHANGED <<now, limVars, wsVars, httpVars, extVars>>

(***************************************************************************)
(* Outbound protocol events.  The content of a chunk is the number of      *)
(* words of the response it carries (a prefix of the words); progress is   *)
(* the fraction num / den.                                                 *)
(***************************************************************************)
Ev(type, code) ==
    [type |-> type, code |-> code, content |-> 0, is_complete |-> FALSE,
     num |-> 0, den |-> 1, info |-> NoResult]

\* chat.py lines 261-264
RateLimitEv(info) == [Ev("rate_limit", "") EXCEPT !.info = info]

\* a chunk that never announces the end of the stream
ChunkEvNeverComplete(i, n) ==
    [type |-> "streaming_response", code |-> "", content |-> i + 1,
     is_complete |-> FALSE, num |-> i + 1, den |-> n, info |-> NoResult]

\* gemini_service.py lines 169-176
ChunkEv(i, n) ==
    [type |-> "streaming_response", code |-> "", content |-> i + 1,
     is_complete |-> (i = n - 1), num |-> i + 1, den |-> n, info |-> NoResult]

\* gemini_service.py line 168: the loop index at which a chunk is sent
SendsAt(i, n) == i % 3 = 0 \/ i = n - 1

\* the next index after i at which a chunk is sent
NextSendIndex(i, n) ==
    CHOOSE j \in (i + 1)..(n - 1) :
        SendsAt(j, n) /\ \A k \in (i + 1)..(j - 1) : ~SendsAt(k, n)

GenerationError == Ev("error", "GENERATION_ERROR")
ProcessingError == Ev("error", "PROCESSING_ERROR")

(***************************************************************************)
(* ConnectionManager, chat.py lines 27-51.  The key f"{user_id}_{session_id}" *)
(* is modelled as the pair of its parts.                                   *)
(***************************************************************************)
ConnectionId(user_id, session_id) == <<user_id, session_id>>
ConnKeys == {ConnectionId(u, SessionId) : u \in {UserId, OtherUserId, "None"}}

\* lines 31-35
ManagerConnectKeepsFirst(reg, w, session_id, user_id) ==
    IF reg[ConnectionId(user_id, session_id)] # "none" THEN reg
    ELSE [reg EXCEPT ![ConnectionId(user_id, session_id)] = w]
ManagerConnect(reg, w, session_id, user_id) ==
    [reg EXCEPT ![ConnectionId(user_id, session_id)] = w]

\* lines 37-41
ManagerDisconnect(reg, session_id, user_id) ==
    [reg EXCEPT ![ConnectionId(user_id, session_id)] = "none"]

(***************************************************************************)
(* websocket_chat_endpoint, lines 175-238: the handshake.  Its outcome is  *)
(* decided by the token, the identity store, the session store and the     *)
(* service constructors.                                                   *)
(***************************************************************************)
HandshakeOutcomes ==
    {"no_token", "bad_token", "no_sub", "user_not_found", "session_denied",
     "session_error", "init_error", "ok"}

\* what a handshake is given: the token (parameter or query parameter), what
\* the user lookup and the ownership check find, whether the services start
TokenInputs == {"absent", "undecodable", "no_sub", "valid"}
UserInputs == {"known", "unknown", "db_error"}
OwnershipInputs == {"owned", "not_owned", "db_error"}
ServiceInputs == {"ok", "error"}
HandshakeInputs ==
    [token : TokenInputs, user : UserInputs, session : OwnershipInputs,
     services : ServiceInputs]
NoHandshake == [token |-> "absent", user |-> "unknown", session |-> "not_owned",
                services |-> "ok"]

\* lines 175-230: the checks in the order the code makes them
HandshakeOutcomeSkipsOwnership(in) ==
    IF in.token = "absent" THEN "no_token"
    ELSE IF in.token = "undecodable" THEN "bad_token"
    ELSE IF in.token = "no_sub" THEN "no_sub"
    ELSE IF in.user = "db_error" THEN "bad_token"
    ELSE IF in.user = "unknown" THEN "user_not_found"
    ELSE IF in.services = "error" THEN "init_error"
    ELSE "ok"
HandshakeOutcome(in) ==
    IF in.token = "absent" THEN "no_token"
    ELSE IF in.token = "undecodable" THEN "bad_token"
    ELSE IF in.token = "no_sub" THEN "no_sub"
    ELSE IF in.user = "db_error" THEN "bad_token"
    ELSE IF in.user = "unknown" THEN "user_not_found"
    ELSE IF in.session = "db_error" THEN "session_error"
    ELSE IF in.session = "not_owned" THEN "session_denied"
    ELSE IF in.services = "error" THEN "init_error"
    ELSE "ok"

\* the code passed to websocket.close on each failing path
CloseCode(o) ==
    CASE o = "no_token" -> 4003
      [] o = "bad_token" -> 4003
      [] o = "no_sub" -> 4003
      [] o = "user_not_found" -> 4003
      [] o = "session_denied" -> 4004
      [] o = "session_error" -> 4005
      [] o = "init_error" -> 4006

\* what the local `user` holds when the function leaves the handshake
UserBinding(o) ==
    IF o \in {"no_token", "bad_token", "no_sub"} THEN "unbound"
    ELSE IF o = "user_not_found" THEN "none"
    ELSE "user"

WsHandshake(w) ==
    /\ wpc[w] = "start"
    /\ \E in \in HandshakeInputs, o \in HandshakeOutcomes, m \in BOOLEAN :
         /\ o = HandshakeOutcome(in)
         /\ win' = [win EXCEPT ![w] = in]
         /\ whs' = [whs EXCEPT ![w] = o]
         /\ wuser' = [wuser EXCEPT ![w] = UserBinding(o)]
         /\ active_connections' =
              IF o \in {"init_error", "ok"}
              THEN ManagerConnect(active_connections, w, SessionId, UserId)
              ELSE active_connections
         /\ IF o = "ok"
            THEN /\ wmodel' = [wmodel EXCEPT ![w] = m]
                 /\ wcb' = [wcb EXCEPT ![w] = CbNew]
                 /\ wevts' = [wevts EXCEPT ![w] = <<Ev("connected", "")>>]
                 /\ wpc' = [wpc EXCEPT ![w] = "recv"]
                 /\ UNCHANGED wclose
            ELSE /\ m
                 /\ wclose' = [wclose EXCEPT ![w] = Append(@, CloseCode(o))]
                 /\ wpc' = [wpc EXCEPT ![w] = "finally"]
                 /\ UNCHANGED <<wmodel, wcb, wevts>>
    /\ UNCHANGED <<now, httpVars, extVars, limVars, brVars, clientUp, wdropAt, wmsg, wlimres, wct, wcnt,
                   wwords, wi, wfail, winvoked, wstored>>

\* the client goes away; from then on receive raises WebSocketDisconnect and
\* send_json raises
ClientDisconnect(w) ==
    /\ wpc[w] \notin {"start", "finally", "done"}
    /\ clientUp[w]
    /\ clientUp' = [clientUp EXCEPT ![w] = FALSE]
    /\ wdropAt' = [wdropAt EXCEPT ![w] =
                      IF wpc[w] \in {"provider", "stream"} THEN wpc[w] ELSE "none"]
    /\ UNCHANGED <<now, httpVars, extVars, limVars, brVars, active_connections, wpc, whs, win, wuser, wclose,
                   wcb, wmodel, wmsg, wlimres, wct, wcnt, wwords, wi, wevts, wfail,
                   winvoked, wstored>>

(***************************************************************************)
(* An exception raised while a message is handled (the handlers of lines   *)
(* 304-309 and 311-329, and lines 181-192 of stream_response): the events  *)
(* evs are sent and the loop goes on; when the client is gone the sends    *)
(* raise in turn and the function leaves the loop.                         *)
(***************************************************************************)
WsFailCloses(w, kind, evs) ==
    /\ wfail' = [wfail EXCEPT ![w] = kind]
    /\ wpc' = [wpc EXCEPT ![w] = "finally"]
    /\ UNCHANGED wevts
WsFail(w, kind, evs) ==
    /\ wfail' = [wfail EXCEPT ![w] = kind]
    /\ IF clientUp[w]
       THEN /\ wevts' = [wevts EXCEPT ![w] = @ \o evs]
            /\ wpc' = [wpc EXCEPT ![w] = "recv"]
       ELSE /\ wpc' = [wpc EXCEPT ![w] = "finally"]
            /\ UNCHANGED wevts

(***************************************************************************)
(* Lines 240-252 and 311-329: one receive with the 300 s idle timeout, and *)
(* the validation of the payload.                                          *)
(***************************************************************************)
Received == {"timeout", "bad_json", "not_object", "empty", "ok"}

\* the idle timeout answered like a failure of the loop body
ReceiveReplyTimeoutAsError(kind) ==
    IF kind = "ok" THEN <<>>
    ELSE IF kind = "bad_json" THEN <<Ev("error", "INVALID_JSON")>>
    ELSE IF kind = "empty" THEN <<Ev("error", "EMPTY_MESSAGE")>>
    ELSE <<Ev("error", "INTERNAL_ERROR")>>

ReceiveReply(kind) ==
    CASE kind = "timeout" -> <<Ev("timeout", "")>>
      [] kind = "bad_json" -> <<Ev("error", "INVALID_JSON")>>
      [] kind = "not_object" -> <<Ev("error", "INTERNAL_ERROR")>>
      [] kind = "empty" -> <<Ev("error", "EMPTY_MESSAGE")>>
      [] kind = "ok" -> <<>>

\* a receive that also runs while the chunks of the current message are sent
WsReceiveDuringStream(w) ==
    /\ wpc[w] \in {"recv", "stream"}
    /\ IF ~clientUp[w]
       THEN /\ wpc' = [wpc EXCEPT ![w] = "finally"]
            /\ UNCHANGED <<wmsg, wlimres, wwords, wi, wevts, wfail, winvoked, wstored>>
       ELSE \E kind \in Received :
              /\ wmsg' = [wmsg EXCEPT ![w] = kind]
              /\ wevts' = [wevts EXCEPT ![w] = ReceiveReply(kind)]
              /\ wfail' = [wfail EXCEPT ![w] =
                             IF kind \in {"bad_json", "not_object", "empty"}
                             THEN "malformed" ELSE "none"]
              /\ wpc' = [wpc EXCEPT ![w] = IF kind = "ok" THEN "limit" ELSE "recv"]
              /\ wlimres' = [wlimres EXCEPT ![w] = NoResult]
              /\ wwords' = [wwords EXCEPT ![w] = 0]
              /\ wi' = [wi EXCEPT ![w] = 0]
              /\ winvoked' = [winvoked EXCEPT ![w] = 0]
              /\ wstored' = [wstored EXCEPT ![w] = 0]
    /\ UNCHANGED <<now, httpVars, extVars, limVars, brVars, active_connections, clientUp, wdropAt, whs, win, wuser,
                   wclose, wcb, wmodel, wct, wcnt>>

WsReceive(w) ==
    /\ wpc[w] = "recv"
    /\ IF ~clientUp[w]
       THEN /\ wpc' = [wpc EXCEPT ![w] = "finally"]
            /\ UNCHANGED <<wmsg, wlimres, wwords, wi, wevts, wfail, winvoked, wstored>>
       ELSE \E kind \in Received :
              /\ wmsg' = [wmsg EXCEPT ![w] = kind]
              /\ wevts' = [wevts EXCEPT ![w] = ReceiveReply(kind)]
              /\ wfail' = [wfail EXCEPT ![w] =
                             IF kind \in {"bad_json", "not_object", "empty"}
                             THEN "malformed" ELSE "none"]
              /\ wpc' = [wpc EXCEPT ![w] = IF kind = "ok" THEN "limit" ELSE "recv"]
              /\ wlimres' = [wlimres EXCEPT ![w] = NoResult]
              /\ wwords' = [wwords EXCEPT ![w] = 0]
              /\ wi' = [wi EXCEPT ![w] = 0]
              /\ winvoked' = [winvoked EXCEPT ![w] = 0]
              /\ wstored' = [wstored EXCEPT ![w] = 0]
    /\ UNCHANGED <<now, httpVars, extVars, limVars, brVars, active_connections, clientUp, wdropAt, whs, win, wuser,
                   wclose, wcb, wmodel, wct, wcnt>>

(***************************************************************************)
(* Lines 254-268 with is_rate_limited lines 24-45: the pipeline, and the   *)
(* rate_limit event of a denied message.  The try of line 255 also holds   *)
(* the send: when it raises, line 266 swallows it and line 270 goes on.    *)
(***************************************************************************)
WsLimitCheck(w) ==
    /\ wpc[w] = "limit"
    /\ \E ok \in BOOLEAN :
         IF ~ok
         THEN /\ wlimres' = [wlimres EXCEPT ![w] = FailOpenInfo]
              /\ wpc' = [wpc EXCEPT ![w] = "generate"]
              /\ UNCHANGED <<zset, expireAt, wct, wcnt, wevts>>
         ELSE LET z1 == LimPipelineState(zset)
                  cnt == ZCard(z1)
              IN  /\ zset' = z1
                  /\ expireAt' = IF cnt > 0 THEN now + WindowSeconds ELSE NoTTL
                  /\ IF LimitReached(cnt, MaxRequests)
                     THEN /\ wlimres' = [wlimres EXCEPT ![w] = DeniedInfo(cnt, WindowSeconds)]
                          /\ IF clientUp[w]
                             THEN /\ wevts' = [wevts EXCEPT ![w] =
                                        Append(@, RateLimitEv(DeniedInfo(cnt, WindowSeconds)))]
                                  /\ wpc' = [wpc EXCEPT ![w] = "recv"]
                             ELSE /\ wpc' = [wpc EXCEPT ![w] = "generate"]
                                  /\ UNCHANGED wevts
                          /\ UNCHANGED <<wct, wcnt>>
                     ELSE /\ wpc' = [wpc EXCEPT ![w] = "limit_record"]
                          /\ wct' = [wct EXCEPT ![w] = now]
                          /\ wcnt' = [wcnt EXCEPT ![w] = cnt]
                          /\ UNCHANGED <<wlimres, wevts>>
    /\ UNCHANGED <<now, httpVars, extVars, lpc, lct, lcnt, lres, recorded, overlap, brVars,
                   active_connections, clientUp, wdropAt, whs, win, wuser, wclose, wcb, wmodel, wmsg,
                   wwords, wi, wfail, winvoked, wstored>>

\* is_rate_limited lines 47-60 for the message of connection w
WsLimitRecord(w) ==
    /\ wpc[w] = "limit_record"
    /\ wpc' = [wpc EXCEPT ![w] = "generate"]
    /\ wct' = [wct EXCEPT ![w] = 0]
    /\ wcnt' = [wcnt EXCEPT ![w] = 0]
    /\ \E ok \in BOOLEAN :
         IF ~ok
         THEN /\ wlimres' = [wlimres EXCEPT ![w] = FailOpenInfo]
              /\ UNCHANGED zset
         ELSE /\ zset' = ZAdd(zset, wct[w])
              /\ wlimres' = [wlimres EXCEPT ![w] = AllowedInfo(wcnt[w])]
    /\ UNCHANGED <<now, httpVars, extVars, expireAt, lpc, lct, lcnt, lres, recorded, overlap, brVars,
                   active_connections, clientUp, wdropAt, whs, win, wuser, wclose, wcb, wmodel, wmsg,
                   wwords, wi, wevts, wfail, winvoked, wstored>>

(***************************************************************************)
(* Lines 272-279 with stream_response lines 141-153 and CircuitBreaker.call *)
(* lines 27-36: the history is read, and the provider is invoked through   *)
(* the connection's own breaker.                                           *)
(***************************************************************************)
WsGenerateStart(w) ==
    /\ wpc[w] = "generate"
    /\ \E dbok \in BOOLEAN :
         IF ~dbok
         THEN /\ WsFail(w, "history", <<ProcessingError>>)
              /\ UNCHANGED <<wcb, winvoked>>
         ELSE IF ~wmodel[w]
         THEN /\ WsFail(w, "no_model",
                        <<Ev("error", "SERVICE_UNAVAILABLE"), ProcessingError>>)
              /\ UNCHANGED <<wcb, winvoked>>
         ELSE IF CbRejects(wcb[w], now)
         THEN /\ WsFail(w, "circuit_open", <<GenerationError, ProcessingError>>)
              /\ UNCHANGED <<wcb, winvoked>>
         ELSE /\ wcb' = [wcb EXCEPT ![w] = CbAfterGate(@, now)]
              /\ winvoked' = [winvoked EXCEPT ![w] = @ + 1]
              /\ wpc' = [wpc EXCEPT ![w] = "provider"]
              /\ UNCHANGED <<wevts, wfail>>
    /\ UNCHANGED <<now, httpVars, extVars, limVars, brVars, active_connections, clientUp, wdropAt, whs, win, wuser,
                   wclose, wmodel, wmsg, wlimres, wct, wcnt, wwords, wi, wstored>>

(***************************************************************************)
(* CircuitBreaker.call lines 36-41 and stream_response lines 156-162: the  *)
(* provider call raises (an error, or the 30 s timeout) or returns: no     *)
(* response, an empty text, or a text of n words (n = 0: only whitespace). *)
(***************************************************************************)
ProviderOutcomes == {"raise", "timeout", "none", "empty", "text"}

WsProviderReturn(w) ==
    /\ wpc[w] = "provider"
    /\ \E r \in ProviderOutcomes, n \in 0..MaxWords :
         IF r \in {"raise", "timeout"}
         THEN /\ n = 0
              /\ wcb' = [wcb EXCEPT ![w] = OnFailure(@, now)]
              \* the history counter stops at the threshold
              /\ consec' = IF consec < FailureThreshold THEN consec + 1 ELSE consec
              /\ lastFail' = now
              /\ WsFail(w, IF r = "timeout" THEN "deadline" ELSE "provider",
                        <<GenerationError, ProcessingError>>)
              /\ UNCHANGED <<wwords, wi>>
         ELSE /\ wcb' = [wcb EXCEPT ![w] = OnSuccess(@)]
              /\ consec' = 0
              /\ UNCHANGED lastFail
              /\ IF r \in {"none", "empty"}
                 THEN /\ n = 0
                      /\ WsFail(w, "empty", <<GenerationError, ProcessingError>>)
                      /\ UNCHANGED <<wwords, wi>>
                 ELSE /\ wwords' = [wwords EXCEPT ![w] = n]
                      /\ wi' = [wi EXCEPT ![w] = 0]
                      /\ wpc' = [wpc EXCEPT ![w] = IF n = 0 THEN "store_user" ELSE "stream"]
                      /\ UNCHANGED <<wevts, wfail>>
    /\ UNCHANGED <<now, httpVars, extVars, limVars, cb, bpc, bres, trial, trialEnd, active_connections, clientUp, wdropAt,
                   whs, win, wuser, wclose, wmodel, wmsg, wlimres, wct, wcnt, winvoked,
                   wstored>>

(***************************************************************************)
(* stream_response lines 164-179: the chunk of index wi is sent; after the *)
(* last word the text is returned.                                         *)
(***************************************************************************)
WsSendChunk(w) ==
    /\ wpc[w] = "stream"
    /\ IF clientUp[w]
       THEN /\ wevts' = [wevts EXCEPT ![w] = Append(@, ChunkEv(wi[w], wwords[w]))]
            /\ IF wi[w] = wwords[w] - 1
               THEN /\ wpc' = [wpc EXCEPT ![w] = "store_user"]
                    /\ UNCHANGED wi
               ELSE /\ wi' = [wi EXCEPT ![w] = NextSendIndex(@, wwords[w])]
                    /\ UNCHANGED wpc
            /\ UNCHANGED wfail
       ELSE /\ WsFail(w, "send", <<>>)
            /\ UNCHANGED wi
    /\ UNCHANGED <<now, httpVars, extVars, limVars, brVars, active_connections, clientUp, wdropAt, whs, win, wuser,
                   wclose, wcb, wmodel, wmsg, wlimres, wct, wcnt, wwords, winvoked,
                   wstored>>

(***************************************************************************)
(* Lines 282-296: the user turn and then the assistant turn are stored;    *)
(* add_message may raise.                                                  *)
(***************************************************************************)
WsStoreUser(w) ==
    /\ wpc[w] = "store_user"
    /\ \E ok \in BOOLEAN :
         IF ok
         THEN /\ wstored' = [wstored EXCEPT ![w] = 1]
              /\ wpc' = [wpc EXCEPT ![w] = "store_assistant"]
              /\ UNCHANGED <<wevts, wfail>>
         ELSE /\ WsFail(w, "store", <<ProcessingError>>)
              /\ UNCHANGED wstored
    /\ UNCHANGED <<now, httpVars, extVars, limVars, brVars, active_connections, clientUp, wdropAt, whs, win, wuser,
                   wclose, wcb, wmodel, wmsg, wlimres, wct, wcnt, wwords, wi, winvoked>>

WsStoreAssistant(w) ==
    /\ wpc[w] = "store_assistant"
    /\ \E ok \in BOOLEAN :
         IF ok
         THEN /\ wstored' = [wstored EXCEPT ![w] = 2]
              /\ wpc' = [wpc EXCEPT ![w] = "analytics"]
              /\ UNCHANGED <<wevts, wfail>>
         ELSE /\ WsFail(w, "store", <<ProcessingError>>)
              /\ UNCHANGED wstored
    /\ UNCHANGED <<now, httpVars, extVars, limVars, brVars, active_connections, clientUp, wdropAt, whs, win, wuser,
                   wclose, wcb, wmodel, wmsg, wlimres, wct, wcnt, wwords, wi, winvoked>>

\* lines 298-302 with ChatAnalytics.track_message, which swallows its own failures
WsAnalytics(w) ==
    /\ wpc[w] = "analytics"
    /\ wpc' = [wpc EXCEPT ![w] = "recv"]
    /\ UNCHANGED <<now, httpVars, extVars, limVars, brVars, active_connections, clientUp, wdropAt, whs, win, wuser,
                   wclose, wcb, wmodel, wmsg, wlimres, wct, wcnt, wwords, wi, wevts,
                   wfail, winvoked, wstored>>

(***************************************************************************)
(* Lines 333-335, the finally block.  With `user` bound to None the        *)
(* expression user.id raises and neither call is made.                     *)
(***************************************************************************)
WsFinally(w) ==
    /\ wpc[w] = "finally"
    /\ wpc' = [wpc EXCEPT ![w] = "done"]
    /\ IF wuser[w] = "none"
       THEN UNCHANGED <<active_connections, wclose>>
       ELSE /\ active_connections' =
                 ManagerDisconnect(active_connections, SessionId,
                                   IF wuser[w] = "user" THEN UserId ELSE "None")
            /\ wclose' = [wclose EXCEPT ![w] = Append(@, 1000)]
    /\ UNCHANGED <<now, httpVars, extVars, limVars, brVars, clientUp, wdropAt, whs, win, wuser, wcb, wmodel, wmsg,
                   wlimres, wct, wcnt, wwords, wi, wevts, wfail, winvoked, wstored>>

\* lines 168-173: the server runs the endpoint anew for the user's next connection
WsReconnect(w) ==
    /\ wpc[w] = "done"
    /\ wpc' = [wpc EXCEPT ![w] = "start"]
    /\ clientUp' = [clientUp EXCEPT ![w] = TRUE]
    /\ wdropAt' = [wdropAt EXCEPT ![w] = "none"]
    /\ whs' = [whs EXCEPT ![w] = "none"]
    /\ win' = [win EXCEPT ![w] = NoHandshake]
    /\ wuser' = [wuser EXCEPT ![w] = "unbound"]
    /\ wclose' = [wclose EXCEPT ![w] = <<>>]
    /\ wcb' = [wcb EXCEPT ![w] = CbNew]
    /\ wmodel' = [wmodel EXCEPT ![w] = TRUE]
    /\ wmsg' = [wmsg EXCEPT ![w] = "none"]
    /\ wlimres' = [wlimres EXCEPT ![w] = NoResult]
    /\ wwords' = [wwords EXCEPT ![w] = 0]
    /\ wi' = [wi EXCEPT ![w] = 0]
    /\ wevts' = [wevts EXCEPT ![w] = <<>>]
    /\ wfail' = [wfail EXCEPT ![w] = "none"]
    /\ winvoked' = [winvoked EXCEPT ![w] = 0]
    /\ wstored' = [wstored EXCEPT ![w] = 0]
    /\ UNCHANGED <<now, httpVars, extVars, limVars, brVars, active_connections, wct, wcnt>>

WsInit ==
    /\ active_connections = [k \in ConnKeys |-> "none"]
    /\ wpc = [w \in Conns |-> "start"]
    /\ clientUp = [w \in Conns |-> TRUE]
    /\ wdropAt = [w \in Conns |-> "none"]
    /\ whs = [w \in Conns |-> "none"]
    /\ win = [w \in Conns |-> NoHandshake]
    /\ wuser = [w \in Conns |-> "unbound"]
    /\ wclose = [w \in Conns |-> <<>>]
    /\ wcb = [w \in Conns |-> CbNew]
    /\ wmodel = [w \in Conns |-> TRUE]
    /\ wmsg = [w \in Conns |-> "none"]
    /\ wlimres = [w \in Conns |-> NoResult]
    /\ wct = [w \in Conns |-> 0]
    /\ wcnt = [w \in Conns |-> 0]
    /\ wwords = [w \in Conns |-> 0]
    /\ wi = [w \in Conns |-> 0]
    /\ wevts = [w \in Conns |-> <<>>]
    /\ wfail = [w \in Conns |-> "none"]
    /\ winvoked = [w \in Conns |-> 0]
    /\ wstored = [w \in Conns |-> 0]

(***************************************************************************)
(* POST /chat: chat_endpoint, src/api/endpoints/chat.py lines 62-166.      *)
(* A request is answered with one status; hstatus is 0 until then.         *)
(***************************************************************************)
HttpOk == 200
HttpNotFound == 404
HttpTooManyRequests == 429
HttpInternalError == 500
HttpUnavailable == 503

\* the response leaves; the handler is over
HttpAnswer(h, code, kind) ==
    /\ hstatus' = [hstatus EXCEPT ![h] = code]
    /\ hfail' = [hfail EXCEPT ![h] = kind]
    /\ hpc' = [hpc EXCEPT ![h] = "done"]

(***************************************************************************)
(* A request arrives (already validated by ChatRequest): FastAPI resolves  *)
(* the dependencies, and get_gemini_service builds a new service, with a   *)
(* new breaker, for the request.                                           *)
(***************************************************************************)
HttpRequest(h) ==
    /\ hpc[h] \in {"idle", "done"}
    /\ Len(hsession) + 2 <= MaxSession
    /\ hok' = IF hpc[h] = "done" /\ hstatus[h] = HttpOk THEN hok + 1 ELSE hok
    /\ hbad' = (hbad \/ (hpc[h] = "done" /\ hstatus[h] # HttpOk))
    /\ hpc' = [hpc EXCEPT ![h] = "limit"]
    /\ hcb' = [hcb EXCEPT ![h] = CbNew]
    /\ \E m \in BOOLEAN : hmodel' = [hmodel EXCEPT ![h] = m]
    /\ hlimres' = [hlimres EXCEPT ![h] = NoResult]
    /\ hct' = [hct EXCEPT ![h] = 0]
    /\ hcnt' = [hcnt EXCEPT ![h] = 0]
    /\ hbound' = [hbound EXCEPT ![h] = FALSE]
    /\ hstatus' = [hstatus EXCEPT ![h] = 0]
    /\ hfail' = [hfail EXCEPT ![h] = "none"]
    /\ hinvoked' = [hinvoked EXCEPT ![h] = 0]
    /\ hstored' = [hstored EXCEPT ![h] = 0]
    /\ UNCHANGED <<now, limVars, brVars, wsVars, extVars, hsession>>

(***************************************************************************)
(* Lines 73-89 with is_rate_limited lines 24-45.  The HTTPException(429)   *)
(* of line 80 is raised inside the try of line 73, whose                   *)
(* "except Exception" (line 84) catches it and raises the 500 of line 86.  *)
(***************************************************************************)
HttpDeniedStatus == HttpInternalError

HttpLimitCheck(h) ==
    /\ hpc[h] = "limit"
    /\ \E ok \in BOOLEAN :
         IF ~ok
         THEN /\ hlimres' = [hlimres EXCEPT ![h] = FailOpenInfo]
              /\ hpc' = [hpc EXCEPT ![h] = "session"]
              /\ UNCHANGED <<zset, expireAt, hct, hcnt, hstatus, hfail>>
         ELSE LET z1 == LimPipelineState(zset)
                  cnt == ZCard(z1)
              IN  /\ zset' = z1
                  /\ expireAt' = IF cnt > 0 THEN now + WindowSeconds ELSE NoTTL
                  /\ IF LimitReached(cnt, MaxRequests)
                     THEN /\ hlimres' = [hlimres EXCEPT ![h] = DeniedInfo(cnt, WindowSeconds)]
                          /\ HttpAnswer(h, HttpDeniedStatus, "rate_limit")
                          /\ UNCHANGED <<hct, hcnt>>
                     ELSE /\ hpc' = [hpc EXCEPT ![h] = "limit_record"]
                          /\ hct' = [hct EXCEPT ![h] = now]
                          /\ hcnt' = [hcnt EXCEPT ![h] = cnt]
                          /\ UNCHANGED <<hlimres, hstatus, hfail>>
    /\ UNCHANGED <<now, lpc, lct, lcnt, lres, recorded, overlap, brVars, wsVars, extVars,
                   hcb, hmodel, hbound, hinvoked, hstored,
                   hsession, hok, hbad>>

\* is_rate_limited lines 47-60 for the request
HttpLimitRecord(h) ==
    /\ hpc[h] = "limit_record"
    /\ hpc' = [hpc EXCEPT ![h] = "session"]
    /\ hct' = [hct EXCEPT ![h] = 0]
    /\ hcnt' = [hcnt EXCEPT ![h] = 0]
    /\ \E ok \in BOOLEAN :
         IF ~ok
         THEN /\ hlimres' = [hlimres EXCEPT ![h] = FailOpenInfo]
              /\ UNCHANGED zset
         ELSE /\ zset' = ZAdd(zset, hct[h])
              /\ hlimres' = [hlimres EXCEPT ![h] = AllowedInfo(hcnt[h])]
    /\ UNCHANGED <<now, expireAt, lpc, lct, lcnt, lres, recorded, overlap, brVars, wsVars, extVars,
                   hcb, hmodel, hbound, hstatus, hfail, hinvoked, hstored,
                   hsession, hok, hbad>>

(***************************************************************************)
(* Lines 91-119 with generate_response lines 112-121 and                   *)
(* CircuitBreaker.call lines 27-36: the session is created or verified,    *)
(* the history is read, and the provider is invoked through the request's  *)
(* own breaker.                                                            *)
(***************************************************************************)
SessionOutcomes == {"ok", "denied", "db_error"}

HttpGenerateStart(h) ==
    /\ hpc[h] = "session"
    /\ \E s \in SessionOutcomes :
         IF s = "denied"
         THEN /\ HttpAnswer(h, HttpNotFound, "session")
              /\ UNCHANGED <<hcb, hinvoked>>
         ELSE IF s = "db_error"
         THEN /\ HttpAnswer(h, HttpInternalError, "history")
              /\ UNCHANGED <<hcb, hinvoked>>
         ELSE IF ~hmodel[h]
         THEN /\ HttpAnswer(h, HttpUnavailable, "no_model")
              /\ UNCHANGED <<hcb, hinvoked>>
         ELSE IF CbRejects(hcb[h], now)
         THEN /\ HttpAnswer(h, HttpUnavailable, "circuit_open")
              /\ UNCHANGED <<hcb, hinvoked>>
         ELSE /\ hcb' = [hcb EXCEPT ![h] = CbAfterGate(@, now)]
              /\ hinvoked' = [hinvoked EXCEPT ![h] = @ + 1]
              /\ hpc' = [hpc EXCEPT ![h] = "provider"]
              /\ UNCHANGED <<hstatus, hfail>>
    /\ UNCHANGED <<now, limVars, brVars, wsVars, extVars, hmodel, hlimres, hct, hcnt, hbound,
                   hstored,
                   hsession, hok, hbad>>

(***************************************************************************)
(* CircuitBreaker.call lines 36-41, generate_response lines 125-132 and    *)
(* chat_endpoint lines 114-119: any failure of the generation is a 503.    *)
(***************************************************************************)
HttpProviderReturn(h) ==
    /\ hpc[h] = "provider"
    /\ \E r \in ProviderOutcomes :
         IF r \in {"raise", "timeout"}
         THEN /\ hcb' = [hcb EXCEPT ![h] = OnFailure(@, now)]
              /\ consec' = IF consec < FailureThreshold THEN consec + 1 ELSE consec
              /\ lastFail' = now
              /\ HttpAnswer(h, HttpUnavailable, "provider")
         ELSE /\ hcb' = [hcb EXCEPT ![h] = OnSuccess(@)]
              /\ consec' = 0
              /\ UNCHANGED lastFail
              /\ IF r \in {"none", "empty"}
                 THEN HttpAnswer(h, HttpUnavailable, "empty")
                 ELSE /\ hpc' = [hpc EXCEPT ![h] = "store_user"]
                      /\ UNCHANGED <<hstatus, hfail>>
    /\ UNCHANGED <<now, limVars, cb, bpc, bres, trial, trialEnd, wsVars, extVars, hmodel, hlimres, hct, hcnt,
                   hbound, hinvoked, hstored,
                   hsession, hok, hbad>>

(***************************************************************************)
(* Lines 122-140: the two turns are stored; a failure of either is logged  *)
(* and the handler goes on, assistant_message being bound only by the      *)
(* second add_message returning.                                           *)
(***************************************************************************)
HttpStoreUser(h) ==
    /\ hpc[h] = "store_user"
    /\ \E ok \in BOOLEAN :
         IF ok
         THEN /\ hstored' = [hstored EXCEPT ![h] = 1]
              /\ hsession' = Append(hsession, "user")
              /\ hpc' = [hpc EXCEPT ![h] = "store_assistant"]
              /\ UNCHANGED hfail
         ELSE /\ hfail' = [hfail EXCEPT ![h] = "store"]
              /\ hpc' = [hpc EXCEPT ![h] = "respond"]
              /\ UNCHANGED <<hstored, hsession>>
    /\ UNCHANGED <<now, limVars, brVars, wsVars, extVars, hcb, hmodel, hlimres, hct, hcnt, hbound,
                   hstatus, hinvoked,
                   hok, hbad>>

HttpStoreAssistant(h) ==
    /\ hpc[h] = "store_assistant"
    /\ hpc' = [hpc EXCEPT ![h] = "respond"]
    /\ \E ok \in BOOLEAN :
         IF ok
         THEN /\ hstored' = [hstored EXCEPT ![h] = 2]
              /\ hsession' = Append(hsession, "assistant")
              /\ hbound' = [hbound EXCEPT ![h] = TRUE]
              /\ UNCHANGED hfail
         ELSE /\ hfail' = [hfail EXCEPT ![h] = "store"]
              /\ UNCHANGED <<hstored, hbound, hsession>>
    /\ UNCHANGED <<now, limVars, brVars, wsVars, extVars, hcb, hmodel, hlimres, hct, hcnt,
                   hstatus, hinvoked,
                   hok, hbad>>

(***************************************************************************)
(* Lines 142-166: the analytics task is queued and the ChatResponse is     *)
(* built.  Line 154 reads assistant_message: unbound after a failed store, *)
(* the read raises, and line 161 turns that into the 500 of line 163.      *)
(***************************************************************************)
HttpRespond(h) ==
    /\ hpc[h] = "respond"
    /\ hstatus' = [hstatus EXCEPT ![h] = IF hbound[h] THEN HttpOk ELSE HttpInternalError]
    /\ hpc' = [hpc EXCEPT ![h] = "done"]
    /\ UNCHANGED <<now, limVars, brVars, wsVars, extVars, hcb, hmodel, hlimres, hct, hcnt, hbound,
                   hfail, hinvoked, hstored,
                   hsession, hok, hbad>>

HttpInit ==
    /\ hpc = [h \in Reqs |-> "idle"]
    /\ hcb = [h \in Reqs |-> CbNew]
    /\ hmodel = [h \in Reqs |-> TRUE]
    /\ hlimres = [h \in Reqs |-> NoResult]
    /\ hct = [h \in Reqs |-> 0]
    /\ hcnt = [h \in Reqs |-> 0]
    /\ hbound = [h \in Reqs |-> FALSE]
    /\ hstatus = [h \in Reqs |-> 0]
    /\ hfail = [h \in Reqs |-> "none"]
    /\ hinvoked = [h \in Reqs |-> 0]
    /\ hstored = [h \in Reqs |-> 0]
    /\ hsession = <<>>
    /\ hok = 0
    /\ hbad = FALSE

(***************************************************************************)
(* POST /login: login, src/api/endpoints/auth.py lines 65-106.  The        *)
(* limiter key is the one of the username: in SpecLogin zset and expireAt  *)
(* are that key and its TTL, and MaxRequests / WindowSeconds stand for     *)
(* the 5 attempts per 300 s of line 73.                                    *)
(***************************************************************************)
HttpUnauthorized == 401

\* saturating count of the attempts of a window that reached the credential check
SatAdd(z, t) == [z EXCEPT ![t] = IF @ < MaxRequests THEN @ + 1 ELSE @]
AdmittedWithin(t) ==
    SumOver(admitted, {s \in Times : t - WindowSeconds < s /\ s <= t})
RecordedWithin(t) ==
    SumOver(arecorded, {s \in Times : t - WindowSeconds < s /\ s <= t})
\* the history forgets what no window ending at t or later can hold
Forget(z, t) == [s \in Times |-> IF s <= t - WindowSeconds THEN 0 ELSE z[s]]

(***************************************************************************)
(* Lines 71-82 with is_rate_limited lines 24-45: a login request arrives   *)
(* and the limiter is asked; a denied attempt is answered 429 at once.     *)
(***************************************************************************)
LoginLimitCheck(a) ==
    /\ apc[a] \in {"idle", "done"}
    /\ atime' = [atime EXCEPT ![a] = now]
    /\ aprior' = [aprior EXCEPT ![a] = AdmittedWithin(now)]
    /\ aprec' = [aprec EXCEPT ![a] = RecordedWithin(now)]
    /\ achecked' = [achecked EXCEPT ![a] = FALSE]
    /\ \E ok \in BOOLEAN :
         IF ~ok
         THEN /\ alimres' = [alimres EXCEPT ![a] = FailOpenInfo]
              /\ apc' = [apc EXCEPT ![a] = "auth"]
              /\ astatus' = [astatus EXCEPT ![a] = 0]
              /\ acnt' = [acnt EXCEPT ![a] = 0]
              /\ UNCHANGED <<zset, expireAt>>
         ELSE LET z1 == LimPipelineState(zset)
                  cnt == ZCard(z1)
              IN  /\ zset' = z1
                  /\ expireAt' = IF cnt > 0 THEN now + WindowSeconds ELSE NoTTL
                  /\ IF LimitReached(cnt, MaxRequests)
                     THEN /\ alimres' = [alimres EXCEPT ![a] = DeniedInfo(cnt, WindowSeconds)]
                          /\ astatus' = [astatus EXCEPT ![a] = HttpTooManyRequests]
                          /\ apc' = [apc EXCEPT ![a] = "done"]
                          /\ acnt' = [acnt EXCEPT ![a] = 0]
                     ELSE /\ alimres' = [alimres EXCEPT ![a] = NoResult]
                          /\ astatus' = [astatus EXCEPT ![a] = 0]
                          /\ apc' = [apc EXCEPT ![a] = "record"]
                          /\ acnt' = [acnt EXCEPT ![a] = cnt]
    /\ admitted' = Forget(admitted, now)
    /\ arecorded' = Forget(arecorded, now)
    /\ UNCHANGED <<now, lpc, lct, lcnt, lres, recorded, overlap, brVars, wsVars, httpVars, streamVars, contextVars, regVars>>

\* is_rate_limited lines 47-60 for the login attempt
LoginLimitRecord(a) ==
    /\ apc[a] = "record"
    /\ apc' = [apc EXCEPT ![a] = "auth"]
    /\ acnt' = [acnt EXCEPT ![a] = 0]
    /\ \E ok \in BOOLEAN :
         IF ~ok
         THEN /\ alimres' = [alimres EXCEPT ![a] = FailOpenInfo]
              /\ UNCHANGED <<zset, arecorded>>
         ELSE /\ zset' = ZAdd(zset, atime[a])
              /\ arecorded' = ZAdd(arecorded, atime[a])
              /\ alimres' = [alimres EXCEPT ![a] = AllowedInfo(acnt[a])]
    /\ UNCHANGED <<now, expireAt, lpc, lct, lcnt, lres, recorded, overlap, brVars, wsVars,
                   httpVars, streamVars, contextVars, regVars, atime, aprior, aprec, astatus, achecked, admitted>>

(***************************************************************************)
(* Lines 84-106: the credentials are checked; the attempt is answered 401, *)
(* 200, or 500 when the database fails.                                    *)
(***************************************************************************)
CredentialOutcomes == {"ok", "bad", "db_error"}

LoginStatus(o) ==
    IF o = "ok" THEN HttpOk ELSE IF o = "bad" THEN HttpUnauthorized ELSE HttpInternalError

LoginAuthenticate(a) ==
    /\ apc[a] = "auth"
    /\ apc' = [apc EXCEPT ![a] = "done"]
    /\ achecked' = [achecked EXCEPT ![a] = TRUE]
    /\ admitted' = SatAdd(admitted, atime[a])
    /\ \E o \in CredentialOutcomes : astatus' = [astatus EXCEPT ![a] = LoginStatus(o)]
    /\ UNCHANGED <<now, limVars, brVars, wsVars, httpVars, streamVars, contextVars, regVars, atime, acnt, alimres, aprior,
                   aprec, arecorded>>

LoginInit ==
    /\ apc = [a \in Logins |-> "idle"]
    /\ atime = [a \in Logins |-> 0]
    /\ acnt = [a \in Logins |-> 0]
    /\ alimres = [a \in Logins |-> NoResult]
    /\ astatus = [a \in Logins |-> 0]
    /\ achecked = [a \in Logins |-> FALSE]
    /\ aprior = [a \in Logins |-> 0]
    /\ aprec = [a \in Logins |-> 0]
    /\ admitted = EmptyZ
    /\ arecorded = EmptyZ

(***************************************************************************)
(* StreamingGeminiService on the characters of the provider's text,        *)
(* gemini_service.py lines 106-192.  A text is a sequence of characters;   *)
(* str.strip, str.split and the += of line 165 are computed on it.         *)
(***************************************************************************)
Chars == {"a", "b", " "}
IsSpace(ch) == ch = " "

\* the texts the provider may return, the empty one included
Texts == UNION {[1..n -> Chars] : n \in 0..MaxText}

RECURSIVE LStrip(_)
LStrip(s) == IF s # <<>> /\ IsSpace(Head(s)) THEN LStrip(Tail(s)) ELSE s

RECURSIVE RStrip(_)
RStrip(s) ==
    IF s # <<>> /\ IsSpace(s[Len(s)]) THEN RStrip(SubSeq(s, 1, Len(s) - 1)) ELSE s

\* str.strip()
Strip(s) == RStrip(LStrip(s))

\* str.split(): the maximal runs of characters that are not whitespace
RECURSIVE SplitFrom(_, _, _)
SplitFrom(s, word, acc) ==
    IF s = <<>>
    THEN IF word = <<>> THEN acc ELSE Append(acc, word)
    ELSE IF IsSpace(Head(s))
         THEN SplitFrom(Tail(s), <<>>, IF word = <<>> THEN acc ELSE Append(acc, word))
         ELSE SplitFrom(Tail(s), Append(word, Head(s)), acc)

Split(s) == SplitFrom(s, <<>>, <<>>)

\* line 165: current_response += word + " "
AccumulateLastWordOnly(cur, word) == word \o <<" ">>
Accumulate(cur, word) == cur \o word \o <<" ">>

\* lines 169-176: the streaming_response event of loop index i
Chunk(content, i, n) ==
    [content |-> content, is_complete |-> (i = n - 1), num |-> i + 1, den |-> n]

\* "progress": (i + 1) / len(words) is 1.0
ProgressIsOne(c) == c.num = c.den

\* what generate_response raised or returned (lines 125-128)
GenFailed(kind) == [kind |-> kind, text |-> <<>>]
GenReturned(t) == [kind |-> "ok", text |-> Strip(t)]

(***************************************************************************)
(* stream_response lines 151-162: the provider is called; it raises, or    *)
(* returns no response, or a text.  "not response.text" holds for the      *)
(* empty text only.                                                        *)
(***************************************************************************)
StreamResponseOutcomes == {"raise", "none", "text"}

StreamCall ==
    /\ spc = "idle"
    /\ \E r \in StreamResponseOutcomes, t \in Texts :
         /\ r # "text" => t = <<>>
         /\ stext' = t
         /\ IF r = "raise"
            THEN /\ spc' = "raised"
                 /\ serr' = "provider"
                 /\ swords' = <<>>
            ELSE IF r = "none" \/ t = <<>>
            THEN /\ spc' = "raised"
                 /\ serr' = "empty"
                 /\ swords' = <<>>
            ELSE /\ spc' = "loop"
                 /\ serr' = "none"
                 /\ swords' = Split(Strip(t))
    /\ UNCHANGED <<now, limVars, brVars, wsVars, httpVars, loginVars, contextVars, regVars, scur, si, ssent,
                   sret, gres>>

(***************************************************************************)
(* Lines 164-177: one iteration of the loop over the words; the send of a  *)
(* chunk raises when the client is gone.                                   *)
(***************************************************************************)
StreamStep ==
    /\ spc = "loop"
    /\ si < Len(swords)
    /\ LET cur == Accumulate(scur, swords[si + 1])
       IN  /\ scur' = cur
           /\ IF SendsAt(si, Len(swords))
              THEN \E ok \in BOOLEAN :
                     IF ok
                     THEN /\ ssent' = Append(ssent, Chunk(Strip(cur), si, Len(swords)))
                          /\ si' = si + 1
                          /\ UNCHANGED <<spc, serr>>
                     ELSE /\ spc' = "raised"
                          /\ serr' = "send"
                          /\ UNCHANGED <<ssent, si>>
              ELSE /\ si' = si + 1
                   /\ UNCHANGED <<ssent, spc, serr>>
    /\ UNCHANGED <<now, limVars, brVars, wsVars, httpVars, loginVars, contextVars, regVars, stext, swords, sret,
                   gres>>

\* line 179: return current_response.strip()
StreamReturn ==
    /\ spc = "loop"
    /\ si = Len(swords)
    /\ spc' = "returned"
    /\ sret' = Strip(scur)
    /\ UNCHANGED <<now, limVars, brVars, wsVars, httpVars, loginVars, contextVars, regVars, stext, swords, scur,
                   si, ssent, serr, gres>>

(***************************************************************************)
(* generate_response lines 118-132 as a function of the provider's answer. *)
(***************************************************************************)
GenerateResponse(r, t) ==
    IF r = "raise" THEN GenFailed("provider")
    ELSE IF r = "none" \/ t = <<>> THEN GenFailed("empty")
    ELSE GenReturned(t)

GenerateCall ==
    /\ spc = "idle"
    /\ spc' = "generated"
    /\ \E r \in StreamResponseOutcomes, t \in Texts :
         /\ r # "text" => t = <<>>
         /\ stext' = t
         /\ gres' = GenerateResponse(r, t)
    /\ UNCHANGED <<now, limVars, brVars, wsVars, httpVars, loginVars, contextVars, regVars, swords, scur, si,
                   ssent, sret, serr>>

\* the call is over and its locals are gone; the service takes the next call
StreamDone ==
    /\ spc \in {"returned", "raised", "generated"}
    /\ spc' = "idle"
    /\ stext' = <<>>
    /\ swords' = <<>>
    /\ scur' = <<>>
    /\ si' = 0
    /\ ssent' = <<>>
    /\ sret' = <<>>
    /\ serr' = "none"
    /\ gres' = GenFailed("none")
    /\ UNCHANGED <<now, limVars, brVars, wsVars, httpVars, loginVars, contextVars, regVars>>

StreamInit ==
    /\ stext = <<>>
    /\ swords = <<>>
    /\ scur = <<>>
    /\ si = 0
    /\ ssent = <<>>
    /\ spc = "idle"
    /\ sret = <<>>
    /\ serr = "none"
    /\ gres = GenFailed("none")

(***************************************************************************)
(* ContextManager.build_context, gemini_service.py lines 60-85, on the     *)
(* history ChatService.get_session_messages hands to it (chat_service.py   *)
(* lines 69-84).  A stored turn is its position in the session and the     *)
(* length of its rendering "Type: content"; a context is the sequence of   *)
(* its parts, joined by "\n".                                              *)
(***************************************************************************)
SystemPromptLen == 156
SystemLabelLen == 8
UserLabelLen == 6
Buffer == 50
PartAllowance == 10
JoinerLen == 1

\* len(message_text) of the stored turns, len(current_message), max_context_length
TurnLens == {20, 300, 700}
MessageLens == {1, 700, 3800, 4000}
ContextLengths == {1000, 4000}

\* the sessions: up to MaxStored turns, oldest first
Stores == UNION {[1..n -> TurnLens] : n \in 0..MaxStored}

Min(a, b) == IF a <= b THEN a ELSE b

\* get_session_messages: ORDER BY timestamp ASC LIMIT limit OFFSET offset
GetSessionMessages(store, limit, offset) ==
    [k \in 1..(Min(Len(store), offset + limit) - Min(Len(store), offset)) |->
        [id |-> offset + k, len |-> store[offset + k]]]

SystemPart == [kind |-> "system", id |-> 0, len |-> SystemLabelLen + SystemPromptLen]
UserPart(m) == [kind |-> "user", id |-> 0, len |-> UserLabelLen + m]
TurnPart(t) == [kind |-> "turn", id |-> t.id, len |-> t.len]

\* lines 63 and 71: total_length before the history is walked
BaseLength(m) == m + Buffer + SystemPromptLen + PartAllowance

\* lines 75-80: the walk over reversed(messages), from index k down
RECURSIVE RecentMessages(_, _, _, _, _)
RecentMessages(messages, k, total, maxLen, acc) ==
    IF k = 0 THEN acc
    ELSE IF total + messages[k].len + PartAllowance > maxLen THEN acc
    ELSE RecentMessages(messages, k - 1, total + messages[k].len + PartAllowance, maxLen,
                        Append(acc, TurnPart(messages[k])))

\* reversed(recent_messages) of line 82
NotReversed(s) == s
Reversed(s) == [k \in 1..Len(s) |-> s[Len(s) + 1 - k]]

\* lines 60-85
BuildContext(messages, m, maxLen) ==
    <<SystemPart>>
    \o Reversed(RecentMessages(messages, Len(messages), BaseLength(m), maxLen, <<>>))
    \o <<UserPart(m)>>

\* len("\n".join(context_parts))
RECURSIVE SumLen(_)
SumLen(parts) == IF parts = <<>> THEN 0 ELSE Head(parts).len + SumLen(Tail(parts))
JoinedLength(parts) == SumLen(parts) + JoinerLen * (Len(parts) - 1)

(***************************************************************************)
(* A generation call reads the session's history with the default limit    *)
(* and offset (chat.py lines 107 and 274) and builds the context.          *)
(***************************************************************************)
ContextCall ==
    /\ cpc = "idle"
    /\ cpc' = "built"
    /\ \E store \in Stores, m \in MessageLens, maxLen \in ContextLengths :
         LET messages == GetSessionMessages(store, HistoryLimit, 0)
         IN  /\ cstore' = store
             /\ cmessages' = messages
             /\ cmsg' = m
             /\ cmax' = maxLen
             /\ cout' = BuildContext(messages, m, maxLen)
    /\ UNCHANGED <<now, limVars, brVars, wsVars, httpVars, loginVars, streamVars, regVars>>

\* the context is discarded after use
ContextDone ==
    /\ cpc = "built"
    /\ cpc' = "idle"
    /\ cstore' = <<>>
    /\ cmessages' = <<>>
    /\ cmsg' = 0
    /\ cmax' = 0
    /\ cout' = <<>>
    /\ UNCHANGED <<now, limVars, brVars, wsVars, httpVars, loginVars, streamVars, regVars>>

ContextInit ==
    /\ cpc = "idle"
    /\ cstore = <<>>
    /\ cmessages = <<>>
    /\ cmsg = 0
    /\ cmax = 0
    /\ cout = <<>>

(***************************************************************************)
(* The ConnectionManager object by itself, chat.py lines 27-41: callers    *)
(* register websocket handles under the keys of two users and unregister   *)
(* keys.  A handle is a websocket of one endpoint run: it is accepted and   *)
(* registered once (line 220).                                              *)
(***************************************************************************)
Handles == {"h1", "h2", "h3", "h4"}
RegUsers == {UserId, OtherUserId}

\* the key of no connection
NoKey == ConnectionId("none", "none")

RegConnect(h, u) ==
    /\ h \notin raccepted
    /\ raccepted' = raccepted \cup {h}
    /\ active_connections' = ManagerConnect(active_connections, h, SessionId, u)
    /\ LET k == ConnectionId(u, SessionId)
       IN  /\ rearlier' = [rearlier EXCEPT ![k] =
                              IF rlast[k] = "none" THEN @ ELSE @ \cup {rlast[k]}]
           /\ rlast' = [rlast EXCEPT ![k] = h]
           /\ rkey' = [rkey EXCEPT ![h] = k]
    /\ UNCHANGED <<now, limVars, brVars, httpVars, loginVars, streamVars, contextVars,
                   wpc, clientUp, wdropAt, whs, win, wuser, wclose, wcb, wmodel, wmsg, wlimres, wct,
                   wcnt, wwords, wi, wevts, wfail, winvoked, wstored>>

RegDisconnect(h, u) ==
    /\ raccepted # {}
    /\ active_connections' = ManagerDisconnect(active_connections, SessionId, u)
    /\ LET k == ConnectionId(u, SessionId)
       IN  /\ IF h = "none" THEN TRUE ELSE rkey[h] = k
           /\ rearlier' = [rearlier EXCEPT ![k] = {}]
           /\ rlast' = [rlast EXCEPT ![k] = "none"]
           /\ rkey' = IF h = "none" THEN rkey ELSE [rkey EXCEPT ![h] = NoKey]
    /\ UNCHANGED <<now, limVars, brVars, httpVars, loginVars, streamVars, contextVars,
                   raccepted,
                   wpc, clientUp, wdropAt, whs, win, wuser, wclose, wcb, wmodel, wmsg, wlimres, wct,
                   wcnt, wwords, wi, wevts, wfail, winvoked, wstored>>

RegInit ==
    /\ raccepted = {}
    /\ rlast = [k \in ConnKeys |-> "none"]
    /\ rearlier = [k \in ConnKeys |-> {}]
    /\ rkey = [h \in Handles |-> NoKey]

BrInit ==
    /\ cb = CbNew
    /\ bpc = [c \in BrCallers |-> "idle"]
    /\ bres = [c \in BrCallers |-> "none"]
    /\ consec = 0
    /\ lastFail = NoTime
    /\ trial = "none"
    /\ trialEnd = "none"

(***************************************************************************)
(* The clock advances; Redis deletes the key when its TTL runs out.        *)
(***************************************************************************)
KeyExpired(t) == expireAt # NoTTL /\ t >= expireAt

Tick ==
    /\ now < MaxTime
    /\ now' = now + 1
    /\ IF KeyExpired(now + 1)
       THEN zset' = EmptyZ /\ expireAt' = NoTTL
       ELSE UNCHANGED <<zset, expireAt>>
    /\ UNCHANGED <<lpc, lct, lcnt, lres, recorded, overlap, brVars, wsVars, httpVars, extVars>>

LimInit ==
    /\ zset = EmptyZ
    /\ expireAt = NoTTL
    /\ lpc = [c \in LimCallers |-> "idle"]
    /\ lct = [c \in LimCallers |-> 0]
    /\ lcnt = [c \in LimCallers |-> 0]
    /\ lres = [c \in LimCallers |-> NoResult]
    /\ recorded = EmptyZ
    /\ overlap = FALSE

Init ==
    /\ now = 0
    /\ LimInit
    /\ BrInit
    /\ WsInit
    /\ HttpInit
    /\ LoginInit
    /\ StreamInit
    /\ ContextInit
    /\ RegInit

LimNext ==
    \/ \E c \in LimCallers : LimCheck(c)
    \/ \E c \in LimCallers : LimRecord(c)
    \/ Tick

SpecLimiter == Init /\ [][LimNext]_vars

BrNext ==
    \/ \E c \in BrCallers : CbCallEnter(c)
    \/ \E c \in BrCallers : CbCallReturn(c)
    \/ Tick

SpecBreaker == Init /\ [][BrNext]_vars

WsNext ==
    \/ \E w \in Conns : WsHandshake(w)
    \/ \E w \in Conns : ClientDisconnect(w)
    \/ \E w \in Conns : WsReceive(w)
    \/ \E w \in Conns : WsLimitCheck(w)
    \/ \E w \in Conns : WsLimitRecord(w)
    \/ \E w \in Conns : WsGenerateStart(w)
    \/ \E w \in Conns : WsProviderReturn(w)
    \/ \E w \in Conns : WsSendChunk(w)
    \/ \E w \in Conns : WsStoreUser(w)
    \/ \E w \in Conns : WsStoreAssistant(w)
    \/ \E w \in Conns : WsAnalytics(w)
    \/ \E w \in Conns : WsFinally(w)
    \/ \E w \in Conns : WsReconnect(w)
    \/ Tick

SpecWs == Init /\ [][WsNext]_vars

HttpNext ==
    \/ \E h \in Reqs : HttpRequest(h)
    \/ \E h \in Reqs : HttpLimitCheck(h)
    \/ \E h \in Reqs : HttpLimitRecord(h)
    \/ \E h \in Reqs : HttpGenerateStart(h)
    \/ \E h \in Reqs : HttpProviderReturn(h)
    \/ \E h \in Reqs : HttpStoreUser(h)
    \/ \E h \in Reqs : HttpStoreAssistant(h)
    \/ \E h \in Reqs : HttpRespond(h)
    \/ Tick

SpecHttp == Init /\ [][HttpNext]_vars

LoginNext ==
    \/ \E a \in Logins : LoginLimitCheck(a)
    \/ \E a \in Logins : LoginLimitRecord(a)
    \/ \E a \in Logins : LoginAuthenticate(a)
    \/ Tick

SpecLogin == Init /\ [][LoginNext]_vars

StreamNext ==
    \/ StreamCall
    \/ StreamStep
    \/ StreamReturn
    \/ GenerateCall
    \/ StreamDone

SpecStream == Init /\ [][StreamNext]_vars

ContextNext ==
    \/ ContextCall
    \/ ContextDone

SpecContext == Init /\ [][ContextNext]_vars

RegNext ==
    \/ \E h \in Handles, u \in RegUsers : RegConnect(h, u)
    \/ \E h \in Handles \cup {"none"}, u \in RegUsers : RegDisconnect(h, u)

SpecRegistry == Init /\ [][RegNext]_vars

(***************************************************************************)
(* Claims about the sliding-window limiter.                                *)
(***************************************************************************)
\* calls ever recorded with a timestamp in the trailing window (t - W, t]
InWindow(t) == SumOver(recorded, {s \in Times : t - WindowSeconds < s /\ s <= t})

\* C1: when the calls for a key are made one after another with the same
\* max_requests = N and window_seconds = W, no trailing window of length W
\* holds more than N recorded (admitted) calls.
C1_SequentialWindowBound ==
    ~overlap => \A t \in Times : InWindow(t) <= MaxRequests

\* a full window, a denied call, and later an admission after the window rolled
C1_Witness ==
    /\ ~overlap
    /\ \E t \in Times : InWindow(t) = MaxRequests
    /\ ZCard(recorded) > MaxRequests
    /\ \E c \in LimCallers : lres[c].kind = "limited"

\* C2: under concurrent callers prune-count-record is one atomic step, so no
\* interleaving records more than max_requests calls in one window.
C2_ConcurrentWindowBound ==
    \A t \in Times : InWindow(t) <= MaxRequests

(***************************************************************************)
(* Claims about the circuit breaker.                                       *)
(***************************************************************************)
\* C3: once failure_threshold wrapped calls have failed in a row, a call made
\* before recovery_timeout has elapsed since the last failure gets the
\* circuit-open error and the wrapped function is not invoked.
C3_OpenRejectsWithoutInvoking ==
    [][\A c \in BrCallers :
         (/\ CbCallEnter(c)
          /\ consec >= FailureThreshold
          /\ now - lastFail < RecoveryTimeout)
         => (bres'[c] = "rejected" /\ bpc'[c] = "idle")]_vars

\* a call was refused right after the threshold was reached from CLOSED
C3_Witness ==
    /\ consec = FailureThreshold
    /\ now - lastFail < RecoveryTimeout
    /\ \E c \in BrCallers : bres[c] = "rejected"
    /\ \A c \in BrCallers : bpc[c] = "idle"

\* C4: while the trial call is in flight in HALF_OPEN, every other call is
\* refused without invoking the wrapped function.
C4_SingleTrial ==
    [][\A c \in BrCallers :
         (/\ CbCallEnter(c)
          /\ cb.state = "HALF_OPEN"
          /\ trial \in BrCallers \ {c}
          /\ bpc[trial] = "inflight")
         => (bres'[c] = "rejected" /\ bpc'[c] = "idle")]_vars

(***************************************************************************)
(* Claims about the WebSocket endpoint.                                    *)
(***************************************************************************)
\* an error event is among the events evs
HasError(evs) == \E k \in 1..Len(evs) : evs[k].type = "error"

\* the connection of slot w is in its message loop
InLoop(w) == whs[w] = "ok" /\ wpc[w] \notin {"finally", "done"}

\* C5: the breaker state is one per provider: once the provider has failed
\* failure_threshold times in a row, over whichever connections, the next
\* generation attempt made before recovery_timeout has elapsed does not
\* invoke the provider.
C5_BreakerSharedAcrossConnections ==
    [][\A w \in Conns :
         (/\ WsGenerateStart(w)
          /\ consec >= FailureThreshold
          /\ now - lastFail < RecoveryTimeout)
         => wpc'[w] # "provider"]_vars

\* C6: a failure to store a turn after the response was generated is
\* swallowed: no error event is sent for it and the loop awaits the next
\* message.
C6_StoreFailureSwallowed ==
    \A w \in Conns :
        (wfail[w] = "store" /\ clientUp[w])
        => (wpc[w] = "recv" /\ ~HasError(wevts[w]))

\* C6, the POST /chat half: a request whose store failed after the response
\* was generated is still answered with the response, status 200.
C6_HttpStoreFailureSwallowed ==
    \A h \in Reqs :
        (hfail[h] = "store" /\ hpc[h] = "done") => hstatus[h] = HttpOk

\* C7: on every path that ends a connection, websocket.close is called
\* exactly once.
C7_ClosedExactlyOnce ==
    \A w \in Conns : wpc[w] = "done" => Len(wclose[w]) = 1

\* C8: when the loop is back at the receive after a well-formed, non-empty
\* message, at least one event about that message has been sent.
C8_EveryMessageAnswered ==
    \A w \in Conns :
        (wpc[w] = "recv" /\ wmsg[w] = "ok") => Len(wevts[w]) >= 1

\* the failures of a single message that the code reports with an error event
ReportedFailures ==
    {"malformed", "history", "no_model", "circuit_open", "provider", "deadline", "empty",
     "store"}

\* C9 as stated: no failure of a single message ends the connection while
\* the client is connected, and for each of them, a limiter error included,
\* an error event is sent and the loop awaits the next message.
C9_FailureIsolatedWithErrorEvent ==
    \A w \in Conns :
        /\ (whs[w] = "ok" /\ wpc[w] \in {"finally", "done"}) => ~clientUp[w]
        /\ (clientUp[w] /\ wfail[w] \in ReportedFailures)
           => (wpc[w] = "recv" /\ HasError(wevts[w]))
        /\ (clientUp[w] /\ wpc[w] = "recv" /\ wlimres[w].kind = "error")
           => HasError(wevts[w])

\* C9 amended: no failure of a single message ends the connection while the
\* client is connected; a malformed payload, a history or storage failure,
\* an unavailable model, an open circuit, a provider failure or timeout and
\* a missing or empty response are each reported with an error event before
\* the loop awaits the next message; a limiter error is failed open: the
\* message goes on to generation as if admitted and gets no rate_limit event.
C9_FailureIsolated ==
    \A w \in Conns :
        /\ (whs[w] = "ok" /\ wpc[w] \in {"finally", "done"}) => ~clientUp[w]
        /\ (clientUp[w] /\ wfail[w] \in ReportedFailures)
           => (wpc[w] = "recv" /\ HasError(wevts[w]))
        /\ (InLoop(w) /\ wlimres[w].kind = "error")
           => (/\ wpc[w] # "limit"
               /\ \A k \in 1..Len(wevts[w]) : wevts[w][k].type # "rate_limit"
               /\ (wpc[w] = "recv" /\ wfail[w] = "none") => winvoked[w] = 1)

\* the loop awaits the next message after an open circuit refused one
C9_Witness ==
    \E w \in Conns :
        /\ wfail[w] = "circuit_open"
        /\ wpc[w] = "recv"
        /\ clientUp[w]
        /\ HasError(wevts[w])

\* C10: for a message the limiter denied, the provider is not invoked and
\* nothing is persisted; while the client is connected the rate_limit event
\* with the limiter's info (retry_after = window_seconds) is sent and the
\* loop awaits the next message.
C10_DeniedMessageNotProcessed ==
    \A w \in Conns :
        (InLoop(w) /\ wlimres[w].kind = "limited")
        => (/\ winvoked[w] = 0
            /\ wstored[w] = 0
            /\ clientUp[w] =>
                 (/\ wpc[w] = "recv"
                  /\ wevts[w] = <<RateLimitEv(wlimres[w])>>
                  /\ wlimres[w].retry_after = WindowSeconds))

\* C11: a POST /chat request that the limiter denied is answered with 429
\* Too Many Requests and the provider is not called for it.
C11_HttpDeniedAnswered429 ==
    \A h \in Reqs :
        (hlimres[h].kind = "limited" /\ hpc[h] = "done")
        => (hstatus[h] = HttpTooManyRequests /\ hinvoked[h] = 0)

(***************************************************************************)
(* Claims about POST /login.                                               *)
(***************************************************************************)
\* C12 as stated: when max_requests login attempts for the username had their
\* credentials checked (accepted or refused) within the window_seconds before
\* an attempt, that attempt is answered 429 and its credentials are not
\* checked.
C12_LoginDeniedAfterLimit ==
    \A a \in Logins :
        (apc[a] = "done" /\ aprior[a] >= MaxRequests)
        => (astatus[a] = HttpTooManyRequests /\ ~achecked[a])

\* C12 amended: when the limiter recorded max_requests login attempts for the
\* username within the window_seconds before an attempt, and the limiter's
\* store answers for that attempt, the attempt is answered 429 and its
\* credentials are not checked; an attempt for which the store fails is not
\* recorded, and one for which it fails is let through to the credential
\* check (fail open).
C12_LoginDeniedAfterRecordedLimit ==
    \A a \in Logins :
        /\ (apc[a] = "done" /\ aprec[a] >= MaxRequests /\ alimres[a].kind # "error")
           => (astatus[a] = HttpTooManyRequests /\ ~achecked[a])
        /\ (apc[a] = "done" /\ alimres[a].kind = "error") => achecked[a]

\* max_requests attempts were checked and recorded, and the next is denied
C12_Witness ==
    \E a \in Logins :
        /\ apc[a] = "done"
        /\ aprec[a] >= MaxRequests
        /\ aprior[a] >= MaxRequests
        /\ alimres[a].kind = "limited"
        /\ astatus[a] = HttpTooManyRequests
        /\ ~achecked[a]

(***************************************************************************)
(* Claims about the streaming of one turn.                                 *)
(***************************************************************************)
IsPrefix(a, b) == Len(a) <= Len(b) /\ SubSeq(b, 1, Len(a)) = a

\* the words joined by single spaces
RECURSIVE Join(_)
Join(ws) ==
    IF ws = <<>> THEN <<>>
    ELSE IF Len(ws) = 1 THEN ws[1]
    ELSE ws[1] \o <<" ">> \o Join(Tail(ws))

\* the loop indices below i at which the code produces a chunk
ProducedBelow(i, n) == {j \in 0..(i - 1) : SendsAt(j, n)}

\* C13: within one turn the chunks are sent in the order they are produced,
\* none skipped: the k-th chunk sent is the k-th the loop produced, its
\* content is the text up to its word, and each chunk's content has the
\* content of the chunk before it as a prefix, so its length never decreases.
C13_ChunksInOrderAndGrowing ==
    /\ \A k \in 1..(Len(ssent) - 1) :
         /\ IsPrefix(ssent[k].content, ssent[k + 1].content)
         /\ Len(ssent[k].content) <= Len(ssent[k + 1].content)
         /\ ssent[k].num < ssent[k + 1].num
    /\ {ssent[k].num - 1 : k \in 1..Len(ssent)} = ProducedBelow(si, Len(swords))
    /\ \A k \in 1..Len(ssent) :
         ssent[k].content = Join(SubSeq(swords, 1, ssent[k].num))

\* a turn of five words was streamed in three chunks
C13_Witness ==
    /\ spc = "returned"
    /\ Len(swords) = 5
    /\ Len(ssent) = 3
    /\ swords[1] # swords[2]

\* C14: a stream_response call that returned has sent a last chunk with
\* is_complete = true and progress = 1.0, whose content is the text returned;
\* no other chunk has is_complete = true or progress = 1.0.
C14_FinalChunkComplete ==
    spc = "returned"
    => /\ Len(ssent) >= 1
       /\ ssent[Len(ssent)].is_complete
       /\ ProgressIsOne(ssent[Len(ssent)])
       /\ ssent[Len(ssent)].content = sret
       /\ \A k \in 1..(Len(ssent) - 1) :
            ~ssent[k].is_complete /\ ~ProgressIsOne(ssent[k])

\* C15: when the provider's answer has no usable text (no response, an empty
\* text, or only whitespace), generate_response and stream_response raise the
\* empty-response error: neither returns, and neither hands back an empty text.
C15_NoUsableTextFails ==
    /\ (spc = "generated" /\ Strip(stext) = <<>> /\ gres.kind # "provider")
       => gres.kind = "empty"
    /\ (spc \in {"loop", "returned"}) => Strip(stext) # <<>>
    /\ spc = "returned" => sret # <<>>

(***************************************************************************)
(* Claims about the context builder.                                       *)
(***************************************************************************)
\* the turns of the context, between the preamble and the new message
IncludedTurns == SubSeq(cout, 2, Len(cout) - 1)

\* what the code has accounted for the preamble, the message and the last k turns
RECURSIVE Accounted(_)
Accounted(k) ==
    IF k = 0 THEN BaseLength(cmsg)
    ELSE Accounted(k - 1) + cmessages[Len(cmessages) + 1 - k].len + PartAllowance

\* C16: for every history, new message and max length, the string
\* build_context returns is at most max_context_length long.
C16_ContextWithinBudget ==
    cpc = "built" => JoinedLength(cout) <= cmax

\* C17: build_context puts the preamble first and the new message last; the
\* turns between them are the last k turns of the supplied history, oldest
\* first, where k is how many turns fit, walking from the newest, before the
\* first one that would take the accounted size over max_context_length.
C17_SuffixInChronologicalOrder ==
    cpc = "built"
    => LET n == Len(cmessages)
           k == Len(cout) - 2
       IN  /\ cout[1] = SystemPart
           /\ cout[Len(cout)] = UserPart(cmsg)
           /\ k \in 0..n
           /\ \A j \in 1..k : IncludedTurns[j] = TurnPart(cmessages[n - k + j])
           /\ \A j \in 1..k : Accounted(j) <= cmax
           /\ k < n => Accounted(k) + cmessages[n - k].len + PartAllowance > cmax

\* two turns of different lengths were kept and an older one was dropped
C17_Witness ==
    /\ cpc = "built"
    /\ Len(cmessages) = 3
    /\ Len(cout) = 4
    /\ cout[2].len # cout[3].len

\* C18: the history handed to the context builder is the most recent part of
\* the session: whenever a stored turn appears in the context, the turn
\* stored last in the session appears in it.
C18_LatestTurnInContext ==
    (cpc = "built" /\ Len(cout) > 2)
    => \E j \in 1..Len(cout) : cout[j].kind = "turn" /\ cout[j].id = Len(cstore)

(***************************************************************************)
(* Claims about the connection registry.                                   *)
(***************************************************************************)
\* the handles reachable through the registry
Reachable == {active_connections[k] : k \in ConnKeys} \ {"none"}

\* C19: after connect was called twice (or more) for one key with no
\* disconnect of that key since, the key leads to the handle of the latest
\* connect, and the handles of the earlier connects are reachable through
\* no key.
C19_LatestHandleOnly ==
    \A k \in ConnKeys :
        rearlier[k] # {}
        => /\ active_connections[k] = rlast[k]
           /\ rearlier[k] \cap Reachable = {}

\* the key of a user was connected twice while another user stays registered
C19_Witness ==
    \E k \in ConnKeys :
        /\ rearlier[k] # {}
        /\ active_connections[k] = rlast[k]
        /\ \E k2 \in ConnKeys \ {k} : active_connections[k2] # "none"

(***************************************************************************)
(* Claims about the WebSocket handshake.                                   *)
(***************************************************************************)
\* a token was presented, it decoded to a subject that resolves to a known
\* user, and the session is owned by that user
Authorized(in) == in.token = "valid" /\ in.user = "known" /\ in.session = "owned"

\* the registry leads to the connection of slot w
Registered(w) == \E k \in ConnKeys : active_connections[k] = w

\* C20: a connection is registered, gets the connected event or has a message
\* processed only if its handshake was authorized; any other connection is
\* closed without being registered and with no limiter, provider or
\* storage-write call made for it.
C20_ActiveOnlyIfAuthorized ==
    \A w \in Conns :
        /\ (\/ Registered(w)
            \/ wevts[w] # <<>>
            \/ InLoop(w)
            \/ wlimres[w] # NoResult
            \/ winvoked[w] > 0
            \/ wstored[w] > 0)
           => Authorized(win[w])
        /\ (whs[w] # "none" /\ ~Authorized(win[w]))
           => (/\ Len(wclose[w]) >= 1
               /\ wpc[w] \in {"finally", "done"})

\* a valid token of a known user for a session of someone else: closed 4004
C20_Witness ==
    \E w \in Conns :
        /\ win[w].token = "valid"
        /\ win[w].user = "known"
        /\ win[w].session = "not_owned"
        /\ wpc[w] = "done"
        /\ wclose[w][1] = 4004
        /\ ~Registered(w)

(***************************************************************************)
(* Claims about disconnection, fail-open and timeouts on the chat paths.   *)
(***************************************************************************)
\* the generation for the current message of connection w is in flight
GenerationInFlight(w) == whs[w] = "ok" /\ wpc[w] \in {"provider", "stream"}

\* the client of connection w disconnected while the generation was in flight
DroppedInFlight(w) == ~clientUp[w] /\ wdropAt[w] \in {"provider", "stream"}

\* C21: once the client has disconnected while the generation for its current
\* message is in flight (the provider call is running, or its text is being
\* streamed), the generation is cancelled: the provider call is not carried
\* to its completion, no chunk is sent and no turn of the message is persisted.
C21_DisconnectCancelsGeneration ==
    [][\A w \in Conns :
         (GenerationInFlight(w) /\ DroppedInFlight(w))
         => (/\ ~WsProviderReturn(w)
             /\ winvoked'[w] = winvoked[w]
             /\ wevts'[w] = wevts[w]
             /\ wstored'[w] = wstored[w])]_vars

\* a step in which the limiter call made for request h returns
HttpLimiterReturns(h) == hpc[h] \in {"limit", "limit_record"} /\ hpc'[h] \notin {"limit", "limit_record"}

\* a step in which the limiter call made for the message of connection w returns
WsLimiterReturns(w) == wpc[w] \in {"limit", "limit_record"} /\ wpc'[w] \notin {"limit", "limit_record"}

\* C22: when the backing store fails inside is_rate_limited, at the pipeline
\* or at the ZADD, the call returns (it does not raise) with an info that
\* carries the error and does not report a limit, and the caller handles the
\* message as admitted: the HTTP chat request goes on to its session and is
\* given no status by the limiter step, the WebSocket message goes on to
\* generation without a rate_limit event; the window is left as it was.  A
\* request is answered by the limiter step only with an info that reports
\* the limit.
C22_StoreFailureFailsOpen ==
    [][/\ \A h \in Reqs :
            HttpLimiterReturns(h)
            => /\ hlimres'[h].kind \in {"allowed", "limited", "error"}
               /\ (hlimres'[h].kind = "error")
                  => (/\ hpc'[h] = "session"
                      /\ hstatus'[h] = hstatus[h]
                      /\ hfail'[h] = hfail[h]
                      /\ zset' = zset)
               /\ (hlimres'[h].kind = "limited") <=> (hpc'[h] = "done")
       /\ \A w \in Conns :
            (WsLimiterReturns(w) /\ wlimres'[w].kind = "error")
            => (/\ wpc'[w] = "generate"
                /\ wevts'[w] = wevts[w]
                /\ wfail'[w] = wfail[w]
                /\ zset' = zset)]_vars

\* a request whose limiter call failed has been taken to the provider
C22_Witness ==
    \E h \in Reqs : hlimres[h].kind = "error" /\ hinvoked[h] = 1

\* a step in which the wait for the next message of connection w, whose client
\* is connected, runs into its 300 s timeout
IdleTimeoutStep(w) == clientUp[w] /\ WsReceive(w) /\ wmsg'[w] = "timeout"

\* C23: when no message arrives within the receive timeout on an active
\* connection, a timeout event (and nothing else) is sent, the connection
\* stays open and registered, the breaker keeps its state, failure count and
\* last failure time, and the loop goes on waiting for the next message.
C23_IdleTimeoutKeepsConnection ==
    [][\A w \in Conns :
         IdleTimeoutStep(w)
         => (/\ wevts'[w] = <<Ev("timeout", "")>>
             /\ wpc'[w] = "recv"
             /\ whs'[w] = "ok"
             /\ wclose'[w] = wclose[w]
             /\ active_connections' = active_connections
             /\ wcb'[w] = wcb[w]
             /\ cb' = cb
             /\ wfail'[w] = "none")]_vars

\* the loop waits again after a timeout event, on a connection whose breaker
\* is open
C23_Witness ==
    \E w \in Conns :
        /\ wpc[w] = "recv"
        /\ clientUp[w]
        /\ wmsg[w] = "timeout"
        /\ wevts[w] = <<Ev("timeout", "")>>
        /\ wcb[w].state = "OPEN"
        /\ active_connections[ConnectionId(UserId, SessionId)] = w

\* a step in which the provider call made for the message of connection w
\* runs into its 30 s deadline
DeadlineStep(w) == WsProviderReturn(w) /\ wfail'[w] = "deadline"

\* C24: a provider call that exceeds its deadline is counted by the breaker
\* as one failure: the failure count grows by one, the last failure time is
\* the time of the failure, and the breaker is Open when the count has
\* reached the threshold (and keeps its state otherwise).  While the client
\* is connected it is reported with error events for that message, never
\* with the timeout event of the idle wait, and the loop awaits the next
\* message.
C24_ProviderDeadlineCountsAsFailure ==
    [][\A w \in Conns :
         DeadlineStep(w)
         => (/\ wcb'[w].failure_count = wcb[w].failure_count + 1
             /\ wcb'[w].last_failure_time = now
             /\ wcb'[w].state = IF wcb[w].failure_count + 1 >= FailureThreshold
                                THEN "OPEN" ELSE wcb[w].state
             /\ clientUp[w]
                => (/\ wevts'[w] = wevts[w] \o <<GenerationError, ProcessingError>>
                    /\ \A k \in 1..Len(wevts'[w]) : wevts'[w][k].type = "error"
                    /\ wpc'[w] = "recv"))]_vars

\* the deadline of a provider call has opened the breaker of a connection
\* whose client was told of the error
C24_Witness ==
    \E w \in Conns :
        /\ wfail[w] = "deadline"
        /\ wcb[w].state = "OPEN"
        /\ wcb[w].failure_count = FailureThreshold
        /\ clientUp[w]
        /\ wpc[w] = "recv"
        /\ HasError(wevts[w])

\* the failure classes of the handshake that the claim names
FailureClass(o) ==
    CASE o = "no_token" -> "missing token"
      [] o \in {"bad_token", "no_sub"} -> "invalid token"
      [] o = "user_not_found" -> "user not found"
      [] o = "session_denied" -> "session denied"
      [] o = "init_error" -> "service init failure"
ClassifiedOutcomes ==
    {"no_token", "bad_token", "no_sub", "user_not_found", "session_denied", "init_error"}

ListLimit == 50

\* what GET /sessions/{session_id}/messages returns with its default limit
\* and offset
ListedMessages == GetSessionMessages(hsession, ListLimit, 0)

\* the calls on the session that have been answered 200
SuccessfulCalls ==
    hok + Cardinality({h \in Reqs : hpc[h] = "done" /\ hstatus[h] = HttpOk})

\* no call is being handled, and every call made on the session succeeded
OnlySuccessfulCalls ==
    /\ ~hbad
    /\ \A h \in Reqs : hpc[h] = "idle" \/ (hpc[h] = "done" /\ hstatus[h] = HttpOk)

AllRecordedBefore(t) ==
    \A s \in Times : recorded[s] > 0 => t - s > WindowSeconds

\* C26: after max_requests calls for a key have been admitted, a call made
\* more than window_seconds after the last of them is admitted: it is not
\* denied, and when the store answers it is counted against an empty window.
C26_AdmittedAfterWindow ==
    [][\A c \in LimCallers :
         (LimCheck(c) /\ ZCard(recorded) >= MaxRequests /\ AllRecordedBefore(now))
         => (/\ lres'[c].kind # "limited"
             /\ lpc'[c] = "counted" \/ lres'[c].kind = "error"
             /\ lpc'[c] = "counted" => lcnt'[c] = 0)]_vars

\* a call is admitted after a full window has passed, a call having been
\* denied while the window was full
C26_Witness ==
    \E c \in LimCallers :
        /\ lpc[c] = "counted"
        /\ lct[c] = now
        /\ lcnt[c] = 0
        /\ ZCard(recorded) >= MaxRequests
        /\ AllRecordedBefore(now)
        /\ \E d \in LimCallers : lres[d].kind = "limited"

\* a step in which the call of caller c is denied
DeniedStep(c) == LimCheck(c) /\ lpc'[c] = "idle" /\ lres'[c].kind = "limited"

\* the entries of window z that a call made at time t counts
CountedAt(z, t) == [s \in Times |-> IF s <= t - WindowSeconds THEN 0 ELSE z[s]]

\* C28: a denied call adds no entry to the key's window: the entries after it
\* are exactly those its pruning left, none is recorded, and every later call
\* counts the entries it would have counted without the denied call, so
\* denied calls do not postpone re-admission.
C28_DeniedCallAddsNoEntry ==
    [][\A c \in LimCallers :
         DeniedStep(c)
         => (/\ zset' = CountedAt(zset, now)
             /\ recorded' = recorded
             /\ \A t \in Times : t >= now => CountedAt(zset', t) = CountedAt(zset, t))]_vars

\* both callers have been denied, one after the other, on a full window
C28_Witness ==
    /\ \A c \in LimCallers : lres[c].kind = "limited" /\ lpc[c] = "idle"
    /\ ZCard(zset) >= MaxRequests

\* a step in which the trial call, made by caller c, returns while the
\* breaker is HALF_OPEN
TrialReturns(c) == CbCallReturn(c) /\ trial = c /\ cb.state = "HALF_OPEN"

\* C29: a trial call that succeeds in HALF_OPEN sets the failure count to 0
\* and the state to CLOSED; the breaker then opens again only with a call
\* that fails as the failure_threshold-th failure in a row since a success.
C29_TrialSuccessCloses ==
    [][/\ \A c \in BrCallers :
            (TrialReturns(c) /\ bres'[c] = "ok")
            => (/\ cb'.state = "CLOSED"
                /\ cb'.failure_count = 0
                /\ consec' = 0)
       /\ (cb.state = "CLOSED" /\ cb'.state = "OPEN")
          => (/\ cb.failure_count = consec
              /\ consec' = consec + 1
              /\ consec' >= FailureThreshold)]_vars

\* the breaker is CLOSED with no failure counted after its trial call succeeded
C29_Witness ==
    /\ trialEnd = "ok"
    /\ cb.state = "CLOSED"
    /\ cb.failure_count = 0
    /\ cb.last_failure_time # NoTime

\* C30: a trial call that fails in HALF_OPEN returns the breaker to OPEN and
\* sets last_failure_time to the time of that failure; from then on calls are
\* refused, the wrapped function not being invoked, as long as no more than
\* recovery_timeout has passed since the trial failed.
C30_TrialFailureReopens ==
    [][\A c \in BrCallers :
         /\ (TrialReturns(c) /\ bres'[c] = "failed")
            => (/\ cb'.state = "OPEN"
                /\ cb'.last_failure_time = now)
         /\ (/\ CbCallEnter(c)
             /\ trialEnd = "failed"
             /\ now - lastFail <= RecoveryTimeout)
            => (bres'[c] = "rejected" /\ bpc'[c] = "idle" /\ cb' = cb)]_vars

\* a call is refused a full recovery_timeout after the trial call failed
C30_Witness ==
    /\ trialEnd = "failed"
    /\ cb.state = "OPEN"
    /\ cb.last_failure_time = lastFail
    /\ now - lastFail = RecoveryTimeout
    /\ \E c \in BrCallers : bres[c] = "rejected"

\* a step in which the wrapped call of caller c fails
FailureStep(c) == CbCallReturn(c) /\ bres'[c] = "failed"

\* C31: concurrent failures are never undercounted: in every interleaving
\* each failing call adds exactly one to failure_count, so that the count
\* equals the number of failures since the last success, and the breaker is
\* OPEN as soon as the count has reached failure_threshold.
C31_FailuresNeverUndercounted ==
    [][\A c \in BrCallers :
         FailureStep(c)
         => (/\ cb'.failure_count = cb.failure_count + 1
             /\ consec' = consec + 1
             /\ cb'.failure_count = consec'
             /\ cb'.failure_count >= FailureThreshold => cb'.state = "OPEN")]_vars

\* the threshold-th failure has just opened the breaker while the call of
\* another caller, started before it opened, is still in flight
C31_Witness ==
    /\ cb.state = "OPEN"
    /\ cb.failure_count = FailureThreshold
    /\ cb.last_failure_time = now
    /\ \E c, d \in BrCallers :
         c # d /\ bres[c] = "failed" /\ bpc[c] = "idle" /\ bpc[d] = "inflight"

\* C32: a call arriving while the breaker is OPEN is refused only while
\* now - last_failure_time < recovery_timeout; once the elapsed time equals
\* or exceeds recovery_timeout the call moves the breaker to HALF_OPEN and
\* goes on as the trial call.
C32_TrialAtRecoveryTimeout ==
    [][\A c \in BrCallers :
         (CbCallEnter(c) /\ cb.state = "OPEN" /\ cb.last_failure_time # NoTime)
         => IF now - cb.last_failure_time < RecoveryTimeout
            THEN bres'[c] = "rejected" /\ bpc'[c] = "idle" /\ cb' = cb
            ELSE cb'.state = "HALF_OPEN" /\ bpc'[c] = "inflight"]_vars

\* the steps of the handling of one message, and the steps that may follow each
MessageSteps ==
    {"limit", "limit_record", "generate", "provider", "stream", "store_user",
     "store_assistant", "analytics"}
StepsAfter(pc) ==
    CASE pc = "recv" -> {"limit"}
      [] pc = "limit" -> {"limit_record", "generate"}
      [] pc = "limit_record" -> {"generate"}
      [] pc = "generate" -> {"provider"}
      [] pc = "provider" -> {"stream", "store_user"}
      [] pc = "stream" -> {"store_user"}
      [] pc = "store_user" -> {"store_assistant"}
      [] pc = "store_assistant" -> {"analytics"}
      [] OTHER -> {}

\* the events that a step appends to those of the message of connection w
Appended(w) == {wevts'[w][k] : k \in (Len(wevts[w]) + 1)..Len(wevts'[w])}

\* the chunk events among evs
Chunks(evs) == {k \in 1..Len(evs) : evs[k].type = "streaming_response"}

\* C33: a WebSocket message is handled in this order: the limiter's answer,
\* the history read and context build followed by the one provider
\* invocation through the breaker, the chunk events, the persistence of the
\* user turn, then of the assistant turn, then the analytics record.  The
\* provider is invoked once, a chunk is sent only between the provider's
\* return and the start of persistence, and when the analytics record of a
\* connected client's message is made the limiter has admitted the message,
\* both turns are stored and a text with words has been streamed to its
\* is_complete chunk.
C33_MessageStepsInOrder ==
    [][\A w \in Conns :
         /\ (wpc'[w] # wpc[w] /\ wpc'[w] \in MessageSteps) => wpc'[w] \in StepsAfter(wpc[w])
         /\ (wpc[w] \in MessageSteps /\ winvoked'[w] # winvoked[w])
            => (wpc[w] = "generate" /\ wpc'[w] = "provider" /\ winvoked'[w] = 1)
         /\ (wpc[w] \in MessageSteps /\ \E e \in Appended(w) : e.type = "streaming_response")
            => wpc[w] = "stream"
         /\ (wpc[w] \in MessageSteps /\ wstored'[w] # wstored[w])
            => \/ wpc[w] = "store_user" /\ wstored[w] = 0 /\ wstored'[w] = 1
               \/ wpc[w] = "store_assistant" /\ wstored[w] = 1 /\ wstored'[w] = 2
         /\ WsAnalytics(w)
            => (/\ winvoked[w] = 1
                /\ wstored[w] = 2
                /\ clientUp[w]
                   => (/\ wlimres[w].kind \in {"allowed", "error"}
                       /\ wwords[w] > 0
                          => (/\ Chunks(wevts[w]) = 1..Len(wevts[w])
                              /\ Len(wevts[w]) = Cardinality({i \in 0..(wwords[w] - 1) :
                                                                SendsAt(i, wwords[w])})
                              /\ wevts[w][Len(wevts[w])].is_complete)))]_vars

\* the analytics record of an admitted message is due: its text has been
\* streamed in more than one chunk and both turns are stored
C33_Witness ==
    \E w \in Conns :
        /\ wpc[w] = "analytics"
        /\ clientUp[w]
        /\ wlimres[w].kind = "allowed"
        /\ winvoked[w] = 1
        /\ wstored[w] = 2
        /\ Len(wevts[w]) >= 2
        /\ wevts[w][Len(wevts[w])].is_complete

\* a step in which the call of caller c is refused because the breaker is OPEN
RejectionStep(c) == CbCallEnter(c) /\ bres'[c] = "rejected"

\* C34: a call refused because the breaker is OPEN changes nothing in the
\* breaker: state, failure_count and last_failure_time are after the refusal
\* what they were before it, so that the time from which a call is admitted
\* again is not moved by refused calls.
C34_RejectionLeavesBreaker ==
    [][\A c \in BrCallers :
         RejectionStep(c)
         => (/\ cb'.state = cb.state
             /\ cb'.failure_count = cb.failure_count
             /\ cb'.last_failure_time = cb.last_failure_time
             /\ \A t \in Times : CbRejects(cb', t) <=> CbRejects(cb, t))]_vars

\* a call was refused when recovery_timeout had not run out, and the call
\* made right after it ran out, counted from the failure, is the trial
C34_Witness ==
    \E c, d \in BrCallers :
        /\ c # d
        /\ bres[c] = "rejected"
        /\ bpc[c] = "idle"
        /\ bpc[d] = "inflight"
        /\ trial = d
        /\ cb.state = "HALF_OPEN"
        /\ now - cb.last_failure_time = RecoveryTimeout + 1

\* C35: the breaker leaves OPEN only through the recovery timeout: a wrapped
\* call that was started before the breaker opened and succeeds while it is
\* OPEN does not set the state back to CLOSED and does not reset the failure
\* count.
C35_LateSuccessKeepsOpen ==
    [][\A c \in BrCallers :
         (CbCallReturn(c) /\ cb.state = "OPEN" /\ bres'[c] = "ok")
         => (cb'.state = "OPEN" /\ cb'.failure_count = cb.failure_count)]_vars

\* C36: in every reachable state of the breaker the state is CLOSED exactly
\* when failure_count < failure_threshold, and in OPEN and in HALF_OPEN
\* last_failure_time is set.
C36_StateMatchesCount ==
    /\ cb.state \in {"CLOSED", "OPEN", "HALF_OPEN"}
    /\ (cb.state = "CLOSED") <=> (cb.failure_count < FailureThreshold)
    /\ cb.state \in {"OPEN", "HALF_OPEN"} => cb.last_failure_time # NoTime

\* the breaker is HALF_OPEN for the second time, its first trial having failed
C36_Witness ==
    /\ cb.state = "HALF_OPEN"
    /\ cb.failure_count = FailureThreshold + 1
    /\ now - cb.last_failure_time > RecoveryTimeout

\* the handles of the connections under key k whose endpoint is still running
LiveHandles(k) == {h \in Handles : rkey[h] = k}

\* C37: while a connection is active the registry maps its key to a live
\* handle: when a second connection has registered under the key of a first
\* one and the first one then tears down, its disconnect does not remove the
\* entry of the second, still live, connection.
C37_LiveKeyStaysRegistered ==
    [][\A h \in Handles, k \in ConnKeys :
         (/\ rkey[h] = k
          /\ rkey'[h] = NoKey
          /\ active_connections[k] \in LiveHandles(k) \ {h})
         => active_connections'[k] = active_connections[k]]_vars

\* the error events among evs
Errors(evs) == {k \in 1..Len(evs) : evs[k].type = "error"}

\* the rate_limit events among evs
RateLimits(evs) == {k \in 1..Len(evs) : evs[k].type = "rate_limit"}

\* C38: for each inbound message the client receives at most one outcome: a
\* chunk stream ending in the is_complete chunk, or one rate_limit event, or
\* one error event; no failure produces two error events, and no error event
\* follows the is_complete chunk of the message.
C38_OneOutcomePerMessage ==
    \A w \in Conns :
        (InLoop(w) /\ wmsg[w] # "none")
        => LET evs == wevts[w]
           IN  /\ Cardinality(Errors(evs)) <= 1
               /\ Cardinality(RateLimits(evs)) <= 1
               /\ Chunks(evs) = {} \/ (Errors(evs) = {} /\ RateLimits(evs) = {})
               /\ Errors(evs) = {} \/ RateLimits(evs) = {}

\* the handling of the message last read on connection w is over: nothing was
\* read yet or the wait timed out, or the message was refused, failed, or
\* was answered and stored
MessageOver(w) ==
    \/ wmsg[w] \in {"none", "timeout"}
    \/ wfail[w] # "none"
    \/ wlimres[w].kind = "limited"
    \/ wstored[w] = 2

\* C39: within one connection messages are handled one at a time: the next
\* message is read only when the handling of the current one is over, the
\* provider is invoked at most once per message, and the chunks sent since
\* the last read all belong to one text and come in increasing order.
C39_OneMessageAtATime ==
    [][\A w \in Conns :
         /\ (WsReceive(w) /\ clientUp[w]) => (wpc[w] = "recv" /\ MessageOver(w))
         /\ winvoked'[w] <= 1
         /\ wpc'[w] \in {"provider", "stream"} => winvoked'[w] = 1
         /\ \A k \in Chunks(wevts'[w]) :
              /\ wevts'[w][k].den = wwords'[w]
              /\ \A j \in Chunks(wevts'[w]) : j < k => wevts'[w][j].num < wevts'[w][k].num]_vars

\* the next message is read after a message was streamed in several chunks
\* and stored
C39_Witness ==
    \E w \in Conns :
        /\ wpc[w] = "recv"
        /\ clientUp[w]
        /\ wmsg[w] = "ok"
        /\ wfail[w] = "none"
        /\ wstored[w] = 2
        /\ Cardinality(Chunks(wevts[w])) >= 2

\* the failures after which no generated text exists
GenerationFailures ==
    {"malformed", "history", "no_model", "circuit_open", "provider", "deadline", "empty"}

\* C40: turns are persisted in pairs: whenever the loop is waiting for the
\* next message, the message just handled has persisted both its user turn
\* and its assistant turn or neither (so the numbers of persisted user turns
\* and assistant turns are equal), and a message that was rate-limited, empty,
\* malformed or whose generation failed has persisted neither.
C40_TurnsPersistedInPairs ==
    \A w \in Conns :
        (InLoop(w) /\ wpc[w] = "recv")
        => /\ wstored[w] \in {0, 2}
           /\ (wlimres[w].kind = "limited" \/ wfail[w] \in GenerationFailures)
              => wstored[w] = 0

====
